---- MODULE Spec2Model ----
(***************************************************************************)
(* TheQueue: the labor / kanban-receipt orchestrators of                   *)
(* app/logic/epicor_api.py and the work-cell queue query of                *)
(* app/logic/queries.py, as state machines.                                *)
(*                                                                         *)
(* An orchestrator is a sequence of blocking remote calls.  Each action    *)
(* below is one remote call together with the local code that runs on its  *)
(* response, up to the next remote call or the return.  The remote ERP is  *)
(* the environment: every call answers ok or not ok, and the content of a  *)
(* successful answer is chosen among the answers the ERP can give.         *)
(*                                                                         *)
(* In the specification of two concurrent orchestrations (SpecConc) the    *)
(* variables of a handler are functions of the orchestration, and LaborDtl *)
(* is a function of the labor header.                                      *)
(***************************************************************************)
EXTENDS Integers, Sequences, FiniteSets, TLC

VARIABLES
    pc,          \* position of the running handler: the remote call it issues next
    args,        \* arguments of the invocation
    ds,          \* the dataset the handler holds between two calls
    lv,          \* the other locals of the handler
    calls,       \* the remote calls issued so far, in order, with their outcome
    result,      \* the returned dict
    LaborHed,    \* remote: the employee has an active labor header (clock-in session)
    LaborDtl,    \* remote: the details of the labor header, LaborDtlSeq -> row
    JobOperRows, \* rows the production-standard query returns for the detail's operation
    JobHead,     \* snapshot: Erp.JobHead, JobNum -> row
    JobOper,     \* snapshot: Erp.JobOper, <<JobNum, AssemblySeq, OprSeq>> -> row
    JobAsmbl,    \* snapshot: Erp.JobAsmbl, <<JobNum, AssemblySeq>> -> row
    XFileAttch,  \* snapshot: Ice.XFileAttch, <<JobNum, AssemblySeq>> -> the files attached
                 \*           to the revision of the assembly's part
    JobMtl,      \* snapshot: Erp.JobMtl, MtlSeq -> row
    PartQty,     \* snapshot: Erp.PartQty summed by part, PartNum -> row
    queue,       \* the rows get_jobs_for_workcell returned
    details,     \* the details_map get_active_labor_details returned
    materials    \* the materials get_job_materials returned

orch == <<pc, args, ds, lv, calls, result, LaborHed, LaborDtl, JobOperRows>>
snapshot == <<JobHead, JobOper, JobAsmbl, XFileAttch, JobMtl, PartQty>>
vars == <<orch, snapshot, queue, details, materials>>

\* No queue request in a behaviour of an orchestrator
NoSnapshot ==
    /\ JobHead = <<>>
    /\ JobOper = <<>>
    /\ JobAsmbl = <<>>
    /\ XFileAttch = <<>>
    /\ JobMtl = <<>>
    /\ PartQty = <<>>
    /\ queue = <<>>
    /\ details = <<>>
    /\ materials = <<>>

----------------------------------------------------------------------------
(* Bounds of the model *)

MaxDtl == 2      \* LaborDtlSeq values 1..MaxDtl
MaxQty == 2      \* reported quantities 0..MaxQty
MaxScrap == 1    \* scrap quantities 0..MaxScrap
MaxStd == 2      \* production standards 0..MaxStd
MaxJobs == 1     \* jobs 1..MaxJobs of a snapshot
MaxAsm == 1      \* assemblies 0..MaxAsm of a job
MaxOps == 3      \* operations of a snapshot
MaxCompleted == 1  \* JobOper.QtyCompleted in 0..MaxCompleted
MaxAttach == 2   \* files attached to a part revision

DtlSeqs == 1..MaxDtl

----------------------------------------------------------------------------
(* Values shared by the handlers *)

\* Python None where a number is expected (calculated_hours, a null LaborHrs)
NoneVal == 0 - 1

\* Hours are counted in 1/720 hour, so that every quotient of
\* calculate_labor_hours over the standards of the model is exact.
HoursUnit == 12 * 60

\* The hours the remote end-activity recomputes from wall-clock times
ClockHours == {HoursUnit \div 120}

\* JobOper.StdFormat as stored: the five tags, one of them also in lower case
\* with blanks around it, and a tag that is not a format
StdFormats == {"HP", " hp ", "MP", "PH", "PM", "HR", "XX"}
TimeStatuses == {"E", "S", "A"}

NoResult == [returned |-> FALSE, success |-> FALSE, error |-> ""]
Success == [returned |-> TRUE, success |-> TRUE, error |-> ""]
Failure(step) == [returned |-> TRUE, success |-> FALSE, error |-> step]

Call(api, ok) == [api |-> api, ok |-> ok, st |-> ""]

\* A lookup (GET with $top=1) and the value its answer lists, "" when it lists none
Lookup(api, ok, value) ==
    [api |-> api, ok |-> ok, st |-> "", value |-> IF ok THEN value ELSE ""]
CallSt(api, ok, st) == [api |-> api, ok |-> ok, st |-> st]

Abs(x) == IF x < 0 THEN 0 - x ELSE x

----------------------------------------------------------------------------
(* calculate_labor_hours *)

\* (rows[0].get('StdFormat') or '').strip().upper(), over the tags of the model
strip_upper(std_format) == IF std_format = " hp " THEN "HP" ELSE std_format

calculate_labor_hours_FormatFirst(rows, total_qty) ==
    IF rows = <<>> THEN NoneVal
    ELSE LET prod_std == rows[1].ProdStandard
             std_format == strip_upper(rows[1].StdFormat)
         IN IF std_format \notin {"HP", "MP", "PH", "PM", "HR"} THEN NoneVal
            ELSE IF prod_std = 0 THEN 0
            ELSE IF std_format = "HP" THEN total_qty * prod_std * HoursUnit
            ELSE IF std_format = "MP" THEN (total_qty * prod_std * HoursUnit) \div 60
            ELSE IF std_format = "PH" THEN (total_qty * HoursUnit) \div prod_std
            ELSE IF std_format = "PM" THEN ((total_qty * HoursUnit) \div prod_std) \div 60
            ELSE prod_std * HoursUnit
calculate_labor_hours(rows, total_qty) ==
    IF rows = <<>> THEN NoneVal
    ELSE LET prod_std == rows[1].ProdStandard
             std_format == strip_upper(rows[1].StdFormat)
         IN IF prod_std = 0 THEN 0
            ELSE IF std_format = "HP" THEN total_qty * prod_std * HoursUnit
            ELSE IF std_format = "MP" THEN (total_qty * prod_std * HoursUnit) \div 60
            ELSE IF std_format = "PH" THEN (total_qty * HoursUnit) \div prod_std
            ELSE IF std_format = "PM" THEN ((total_qty * HoursUnit) \div prod_std) \div 60
            ELSE IF std_format = "HR" THEN prod_std * HoursUnit
            ELSE NoneVal

----------------------------------------------------------------------------
(* end_activity *)

\* A dataset row as GetByID returns it: the remote row, not yet marked modified
DsRow(r) == [f \in DOMAIN r \cup {"RowMod"} |-> IF f = "RowMod" THEN "" ELSE r[f]]

Dataset(tbl) == [d \in DOMAIN tbl |-> DsRow(tbl[d])]

\* Update persists the rows marked RowMod = 'U'; the remote decides the hours it keeps
\* (the value sent or its own wall-clock value) and the status its workflow leaves.
Persist(tbl, d, row, hrs, st) ==
    IF d \in DOMAIN tbl /\ d \in DOMAIN row /\ row[d].RowMod = "U"
    THEN [tbl EXCEPT ![d] = [f \in DOMAIN tbl[d] |->
                                IF f = "LaborHrs" THEN hrs
                                ELSE IF f = "TimeStatus" THEN st
                                ELSE row[d][f]]]
    ELSE tbl

\* abs(float(current_hrs) - calculated_hours) > 0.001
HoursWrong_Never(current_hrs, calculated_hours) == FALSE
HoursWrong(current_hrs, calculated_hours) ==
    Abs(current_hrs - calculated_hours) * 1000 > HoursUnit

\* Step 6 is entered: if calculated_hours is not None
HoursComputed_Always(calculated_hours) == TRUE
HoursComputed(calculated_hours) == calculated_hours # NoneVal

\* if recall_resp.ok: ... if new_status == 'E'
RecallLeftEditable_NoStatus(ok, found3, new_status) == ok /\ found3
RecallLeftEditable(ok, found3, new_status) == ok /\ found3 /\ new_status = "E"

\* if update3_resp.ok: ... SubmitForApproval
SubmitAfterUpdate_Always(ok) == TRUE
SubmitAfterUpdate(ok) == ok

InitEnd ==
    /\ pc = "GetByID"
    /\ args \in [labor_dtl_seq : DtlSeqs, labor_qty : 0..MaxQty,
                 scrap_qty : 0..MaxScrap, complete : BOOLEAN]
    /\ ds = <<>>
    /\ lv = [calculated_hours |-> NoneVal, found |-> FALSE,
             current_hrs |-> 0, time_status |-> "", wrong |-> FALSE]
    /\ calls = <<>>
    /\ result = NoResult
    /\ LaborHed = TRUE
    /\ \E S \in SUBSET DtlSeqs :
          LaborDtl = [d \in S |-> [LaborQty |-> 0, ScrapQty |-> 0, LaborHrs |-> 0,
                                   TimeStatus |-> "E", OpComplete |-> FALSE]]
    /\ JobOperRows \in {<<>>} \cup
          {<<[ProdStandard |-> s, StdFormat |-> f]>> : s \in 0..MaxStd, f \in StdFormats}
    /\ NoSnapshot

\* Steps 1-2: GetByID, then locate the detail, compute the hours, set the quantities
end_activity_GetByID ==
    /\ pc = "GetByID"
    /\ \E ok \in BOOLEAN :
        /\ calls' = Append(calls, Call("GetByID", ok))
        /\ IF ~ok
           THEN /\ result' = Failure("GetByID")
                /\ pc' = "done"
                /\ UNCHANGED <<ds, lv>>
           ELSE LET d == args.labor_dtl_seq
                    fetched == Dataset(LaborDtl)
                    total_qty == args.labor_qty + args.scrap_qty
                IN /\ IF d \in DOMAIN fetched
                      THEN /\ ds' = [fetched EXCEPT ![d] =
                                  [@ EXCEPT !.LaborQty = args.labor_qty,
                                            !.ScrapQty = args.scrap_qty,
                                            !.OpComplete = IF args.complete THEN TRUE ELSE @,
                                            !.RowMod = "U"]]
                           /\ lv' = [lv EXCEPT
                                  !.calculated_hours = calculate_labor_hours(JobOperRows, total_qty),
                                  !.found = TRUE]
                      ELSE /\ ds' = fetched
                           /\ UNCHANGED lv
                   /\ pc' = "EndActivity"
                   /\ UNCHANGED result
    /\ UNCHANGED <<args, LaborHed, LaborDtl, JobOperRows, snapshot, queue, details, materials>>

\* Steps 3-4: the remote end-activity recomputes the hours of the rows it ends;
\* the handler then writes the standard-based hours over them
end_activity_EndActivity ==
    /\ pc = "EndActivity"
    /\ \E ok \in BOOLEAN, clock \in ClockHours :
        /\ calls' = Append(calls, Call("EndActivity", ok))
        /\ IF ~ok
           THEN /\ result' = Failure("EndActivity")
                /\ pc' = "done"
                /\ UNCHANGED ds
           ELSE LET d == args.labor_dtl_seq
                    resp == [x \in DOMAIN ds |->
                               IF ds[x].RowMod = "U"
                               THEN [ds[x] EXCEPT !.LaborHrs = clock]
                               ELSE ds[x]]
                IN /\ ds' = IF lv.calculated_hours # NoneVal /\ d \in DOMAIN resp
                            THEN [resp EXCEPT ![d] = [@ EXCEPT !.LaborHrs = lv.calculated_hours,
                                                               !.RowMod = "U"]]
                            ELSE resp
                   /\ pc' = "Update"
                   /\ UNCHANGED result
    /\ UNCHANGED <<args, lv, LaborHed, LaborDtl, JobOperRows, snapshot, queue, details, materials>>

\* Step 5: Update to commit; then step 6 is entered only with computed hours
end_activity_Update ==
    /\ pc = "Update"
    /\ \E ok \in BOOLEAN, clock \in ClockHours, keeps \in BOOLEAN, st \in TimeStatuses :
        /\ calls' = Append(calls, Call("Update", ok))
        /\ IF ~ok
           THEN /\ result' = Failure("Update after EndActivity")
                /\ pc' = "done"
                /\ UNCHANGED LaborDtl
           ELSE LET d == args.labor_dtl_seq
                    sent == IF d \in DOMAIN ds THEN ds[d].LaborHrs ELSE 0
                IN /\ LaborDtl' = Persist(LaborDtl, d, ds, IF keeps THEN sent ELSE clock, st)
                   /\ pc' = IF HoursComputed(lv.calculated_hours) THEN "GetByID2" ELSE "Final"
                   /\ UNCHANGED result
    /\ UNCHANGED <<args, ds, lv, LaborHed, JobOperRows, snapshot, queue, details, materials>>

\* Step 6: re-fetch and compare the persisted hours with the computed ones
end_activity_GetByID2 ==
    /\ pc = "GetByID2"
    /\ \E ok \in BOOLEAN, view \in {"value", "null", "missing"} :
        /\ calls' = Append(calls, Call("GetByID", ok))
        /\ LET d == args.labor_dtl_seq
               ds2 == Dataset(LaborDtl)
           IN IF ~ok \/ d \notin DOMAIN ds2
              THEN /\ pc' = "Final"
                   /\ UNCHANGED <<ds, lv, result>>
              ELSE LET current_hrs == IF view = "value" THEN ds2[d].LaborHrs
                                      ELSE IF view = "null" THEN NoneVal ELSE 0
                       time_status == ds2[d].TimeStatus
                   IN IF current_hrs = NoneVal
                      THEN \* float(None) raises; the handler's except returns a failure
                           /\ result' = Failure("exception")
                           /\ pc' = "done"
                           /\ UNCHANGED <<ds, lv>>
                      ELSE /\ lv' = [lv EXCEPT !.current_hrs = current_hrs,
                                               !.time_status = time_status,
                                               !.wrong = HoursWrong(current_hrs, lv.calculated_hours)]
                           /\ UNCHANGED result
                           /\ IF ~HoursWrong(current_hrs, lv.calculated_hours)
                              THEN pc' = "Final" /\ UNCHANGED ds
                              ELSE IF time_status = "E"
                              THEN /\ ds' = [ds2 EXCEPT ![d] =
                                          [@ EXCEPT !.LaborHrs = lv.calculated_hours,
                                                    !.RowMod = "U"]]
                                   /\ pc' = "Update2"
                              ELSE IF time_status \in {"S", "A"}
                              THEN /\ ds' = [ds2 EXCEPT ![d] = [@ EXCEPT !.RowMod = "U"]]
                                   /\ pc' = "Recall"
                              ELSE pc' = "Final" /\ UNCHANGED ds
    /\ UNCHANGED <<args, LaborHed, LaborDtl, JobOperRows, snapshot, queue, details, materials>>

\* Repair of an editable detail: set the hours directly and persist
end_activity_Update2 ==
    /\ pc = "Update2"
    /\ \E ok \in BOOLEAN :
        /\ calls' = Append(calls, Call("Update", ok))
        /\ LaborDtl' = IF ok
                       THEN Persist(LaborDtl, args.labor_dtl_seq, ds,
                                    lv.calculated_hours, "E")
                       ELSE LaborDtl
        /\ pc' = "Final"
    /\ UNCHANGED <<args, ds, lv, result, LaborHed, JobOperRows, snapshot, queue, details, materials>>

\* After the recall: persist the hours if the detail is editable; otherwise
\* the repair is given up and the handler goes on to its final fetch
AfterRecall_Retry(editable) == IF editable THEN "Update3" ELSE "Recall"
AfterRecall(editable) == IF editable THEN "Update3" ELSE "Final"

\* Repair of a submitted or approved detail: recall it first
end_activity_Recall ==
    /\ pc = "Recall"
    /\ \E ok \in BOOLEAN, new_status \in TimeStatuses, found3 \in BOOLEAN :
        /\ calls' = Append(calls, CallSt("RecallFromApproval", ok,
                                         IF ok /\ found3 THEN new_status ELSE ""))
        /\ LET d == args.labor_dtl_seq
           IN /\ LaborDtl' = IF ok
                             THEN [LaborDtl EXCEPT ![d] = [@ EXCEPT !.TimeStatus = new_status]]
                             ELSE LaborDtl
              /\ IF RecallLeftEditable(ok, found3, new_status)
                 THEN /\ ds' = [ds EXCEPT ![d] = [@ EXCEPT !.TimeStatus = new_status,
                                                           !.LaborHrs = lv.calculated_hours,
                                                           !.RowMod = "U"]]
                      /\ pc' = AfterRecall(TRUE)
                 ELSE /\ pc' = AfterRecall(FALSE)
                      /\ UNCHANGED ds
    /\ UNCHANGED <<args, lv, result, LaborHed, JobOperRows, snapshot, queue, details, materials>>

\* Persist the hours of the recalled detail
end_activity_Update3 ==
    /\ pc = "Update3"
    /\ \E ok \in BOOLEAN :
        /\ calls' = Append(calls, Call("Update", ok))
        /\ LaborDtl' = IF ok
                       THEN Persist(LaborDtl, args.labor_dtl_seq, ds,
                                    lv.calculated_hours, "E")
                       ELSE LaborDtl
        /\ pc' = IF SubmitAfterUpdate(ok) THEN "Submit" ELSE "Final"
    /\ UNCHANGED <<args, ds, lv, result, LaborHed, JobOperRows, snapshot, queue, details, materials>>

\* Re-submit the repaired detail; the remote workflow may approve it at once
end_activity_Submit ==
    /\ pc = "Submit"
    /\ \E ok \in BOOLEAN, st \in {"S", "A"} :
        /\ calls' = Append(calls, Call("SubmitForApproval", ok))
        /\ LaborDtl' = IF ok
                       THEN [LaborDtl EXCEPT ![args.labor_dtl_seq] =
                                [@ EXCEPT !.TimeStatus = st]]
                       ELSE LaborDtl
        /\ pc' = "Final"
    /\ UNCHANGED <<args, ds, lv, result, LaborHed, JobOperRows, snapshot, queue, details, materials>>

\* The final GetByID only logs; the handler then returns success
end_activity_Final ==
    /\ pc = "Final"
    /\ \E ok \in BOOLEAN :
        /\ calls' = Append(calls, Call("GetByID", ok))
        /\ result' = Success
        /\ pc' = "done"
    /\ UNCHANGED <<args, ds, lv, LaborHed, LaborDtl, JobOperRows, snapshot, queue, details, materials>>

NextEnd ==
    \/ end_activity_GetByID
    \/ end_activity_EndActivity
    \/ end_activity_Update
    \/ end_activity_GetByID2
    \/ end_activity_Update2
    \/ end_activity_Recall
    \/ end_activity_Update3
    \/ end_activity_Submit
    \/ end_activity_Final

SpecEnd == InitEnd /\ [][NextEnd]_vars

----------------------------------------------------------------------------
(* start_activity *)

\* LaborHedSeq of the employee's active header
HedSeq == 100

ArgValues(v) == {"", v}

\* A detail as the remote stores it
RemoteRow(job, opcode, asm, opr, grp, res, dept, cap) ==
    [JobNum |-> job, OpCode |-> opcode, AssemblySeq |-> asm, OprSeq |-> opr,
     ResourceGrpID |-> grp, ResourceID |-> res, JCDept |-> dept, CapabilityID |-> cap,
     Rework |-> FALSE, LaborQty |-> 0, ScrapQty |-> 0, LaborHrs |-> 0,
     TimeStatus |-> "E", OpComplete |-> FALSE]

\* The rows of a fetched dataset, in LaborDtlSeq order
RECURSIVE DsRows(_, _)
DsRows(tbl, n) ==
    IF n = 0 THEN <<>>
    ELSE LET rest == DsRows(tbl, n - 1)
         IN IF n \in DOMAIN tbl
            THEN Append(rest, [f \in DOMAIN tbl[n] \cup {"RowMod", "LaborDtlSeq"} |->
                                  IF f = "RowMod" THEN ""
                                  ELSE IF f = "LaborDtlSeq" THEN n
                                  ELSE tbl[n][f]])
            ELSE rest

\* ds['LaborDtl'] = []
ClearLaborDtl_Keep(rows) == rows
ClearLaborDtl(rows) == <<>>

\* The row the remote start-activity adds to the dataset
NewDtlRow ==
    [f \in DOMAIN RemoteRow("", "", 0, 0, "", "", "", "") \cup {"RowMod", "LaborDtlSeq"} |->
        IF f = "RowMod" THEN "A"
        ELSE IF f = "LaborDtlSeq" THEN 0
        ELSE RemoteRow("", "", 0, 0, "", "", "", "")[f]]

MaxSeq(tbl) == IF DOMAIN tbl = {} THEN 0
               ELSE CHOOSE m \in DOMAIN tbl : \A d \in DOMAIN tbl : d <= m

\* The remote Update: rows marked 'A' become new details, rows marked 'U' replace theirs
RECURSIVE Save(_, _)
Save(tbl, rows) ==
    IF rows = <<>> THEN tbl
    ELSE LET r == Head(rows)
             stored == [f \in DOMAIN r \ {"RowMod", "LaborDtlSeq"} |-> r[f]]
             t == IF r.RowMod = "A" THEN tbl @@ ((MaxSeq(tbl) + 1) :> stored)
                  ELSE IF r.RowMod = "U" /\ r.LaborDtlSeq \in DOMAIN tbl
                  THEN [tbl EXCEPT ![r.LaborDtlSeq] = stored]
                  ELSE tbl
         IN Save(t, Tail(rows))

\* The calls whose non-ok response makes start_activity return a failure
start_activity_aborts_NotDefaultJob(api) ==
    api \in {"Labors", "GetByID", "StartActivity", "Update"}
start_activity_aborts(api) ==
    api \in {"Labors", "GetByID", "StartActivity", "DefaultJobNum", "Update"}

\* Lines 197-203: the caller's resource, department and capability, and Rework
Finish7(row) ==
    [row EXCEPT !.ResourceID = IF args.resource_id # "" THEN args.resource_id ELSE @,
                !.JCDept = IF args.jc_dept # "" THEN args.jc_dept ELSE @,
                !.CapabilityID = IF args.capability_id # "" THEN args.capability_id ELSE @,
                !.Rework = FALSE]

\* Lines 187-188: the department is looked up from the resource group that was found
NeedsDept(row) ==
    row.ResourceGrpID # "" /\ lv.default_jc_dept = "" /\ args.jc_dept = ""

InitStart ==
    /\ pc = "ClockIn"
    /\ args \in [job_num : {"J1"}, asm_seq : {0}, opr_seq : {10},
                 resource_grp_id : ArgValues("RG_ARG"), resource_id : ArgValues("R_ARG"),
                 op_code : ArgValues("WELD"), jc_dept : ArgValues("D_ARG"),
                 capability_id : ArgValues("C_ARG")]
    /\ ds = <<>>
    /\ lv = [clockin_error |-> FALSE, default_res_grp |-> "", default_jc_dept |-> ""]
    /\ calls = <<>>
    /\ result = [returned |-> FALSE, success |-> FALSE, error |-> "",
                 laborHedSeq |-> NoneVal, laborDtlSeq |-> NoneVal]
    /\ LaborHed \in BOOLEAN
    /\ \E S \in SUBSET DtlSeqs :
          /\ ~LaborHed => S = {}
          /\ LaborDtl = [d \in S |-> RemoteRow("J0", "SAW", 0, 10, "RG0", "R0", "D0", "")]
    /\ JobOperRows = <<>>
    /\ NoSnapshot

StartFailure(step) ==
    [returned |-> TRUE, success |-> FALSE, error |-> step,
     laborHedSeq |-> NoneVal, laborDtlSeq |-> NoneVal]

\* Return a failure after a non-ok answer of an aborting call
StartAbort(api) ==
    /\ result' = StartFailure(api)
    /\ pc' = "done"

\* Step 1: clock in; a non-ok answer is kept for the header lookup's message
start_activity_ClockIn ==
    /\ pc = "ClockIn"
    /\ \E ok \in BOOLEAN :
        /\ calls' = Append(calls, Call("ClockIn", ok))
        /\ LaborHed' = (LaborHed \/ ok)
        /\ IF ~ok /\ start_activity_aborts("ClockIn")
           THEN StartAbort("ClockIn") /\ UNCHANGED lv
           ELSE /\ lv' = [lv EXCEPT !.clockin_error = ~ok]
                /\ pc' = "Labors"
                /\ UNCHANGED result
    /\ UNCHANGED <<args, ds, LaborDtl, JobOperRows, snapshot, queue, details, materials>>

\* Step 2: the employee's active header
start_activity_Labors ==
    /\ pc = "Labors"
    /\ \E ok \in BOOLEAN :
        /\ calls' = Append(calls, Call("Labors", ok))
        /\ IF ~ok /\ start_activity_aborts("Labors")
           THEN StartAbort("Labors")
           ELSE IF ok /\ ~LaborHed
           THEN /\ result' = StartFailure("No active LaborHed")
                /\ pc' = "done"
           ELSE /\ pc' = "GetByID"
                /\ UNCHANGED result
    /\ UNCHANGED <<args, ds, lv, LaborHed, LaborDtl, JobOperRows, snapshot, queue, details, materials>>

\* Step 3: the full dataset, emptied of its details
start_activity_GetByID ==
    /\ pc = "GetByID"
    /\ \E ok \in BOOLEAN :
        /\ calls' = Append(calls, Call("GetByID", ok))
        /\ IF ~ok /\ start_activity_aborts("GetByID")
           THEN StartAbort("GetByID") /\ UNCHANGED ds
           ELSE /\ ds' = IF ok THEN ClearLaborDtl(DsRows(LaborDtl, MaxSeq(LaborDtl))) ELSE ds
                /\ pc' = "StartActivity"
                /\ UNCHANGED result
    /\ UNCHANGED <<args, lv, LaborHed, LaborDtl, JobOperRows, snapshot, queue, details, materials>>

\* Steps 4-5: the remote adds a new row; the job (and the caller's op code) go on row 0
start_activity_StartActivity ==
    /\ pc = "StartActivity"
    /\ \E ok \in BOOLEAN, created \in BOOLEAN :
        /\ calls' = Append(calls, Call("StartActivity", ok))
        /\ IF ~ok /\ start_activity_aborts("StartActivity")
           THEN StartAbort("StartActivity") /\ UNCHANGED ds
           ELSE LET resp == IF ~ok THEN ds
                            ELSE IF created THEN Append(ds, NewDtlRow) ELSE ds
                IN IF resp = <<>>
                   THEN /\ result' = StartFailure("No LaborDtl record created")
                        /\ pc' = "done"
                        /\ UNCHANGED ds
                   ELSE /\ ds' = [resp EXCEPT ![1] =
                               [@ EXCEPT !.JobNum = args.job_num,
                                         !.OpCode = IF args.op_code # ""
                                                    THEN args.op_code ELSE @]]
                        /\ pc' = "DefaultJobNum"
                        /\ UNCHANGED result
    /\ UNCHANGED <<args, lv, LaborHed, LaborDtl, JobOperRows, snapshot, queue, details, materials>>

\* DefaultJobNum, then step 6 sets the assembly and the operation on row 0
start_activity_DefaultJobNum ==
    /\ pc = "DefaultJobNum"
    /\ \E ok \in BOOLEAN, kept \in BOOLEAN :
        /\ calls' = Append(calls, Call("DefaultJobNum", ok))
        /\ IF ~ok /\ start_activity_aborts("DefaultJobNum")
           THEN StartAbort("DefaultJobNum") /\ UNCHANGED ds
           ELSE LET resp == IF ok /\ ~kept THEN <<>> ELSE ds
                IN /\ ds' = IF resp # <<>>
                            THEN [resp EXCEPT ![1] = [@ EXCEPT !.AssemblySeq = args.asm_seq,
                                                               !.OprSeq = args.opr_seq]]
                            ELSE resp
                   /\ pc' = "DefaultOprSeq"
                   /\ UNCHANGED result
    /\ UNCHANGED <<args, lv, LaborHed, LaborDtl, JobOperRows, snapshot, queue, details, materials>>

\* DefaultOprSeq: the remote defaults resource group, department and op code;
\* then step 7 starts: caller's resource group, or the fallback chain
start_activity_DefaultOprSeq ==
    /\ pc = "DefaultOprSeq"
    /\ \E ok \in BOOLEAN, kept \in BOOLEAN, grp \in ArgValues("RG_DEF"),
          dept \in ArgValues("D_DEF"), opc \in ArgValues("OP_DEF") :
        /\ calls' = Append(calls, Call("DefaultOprSeq", ok))
        /\ IF ~ok /\ start_activity_aborts("DefaultOprSeq")
           THEN StartAbort("DefaultOprSeq") /\ UNCHANGED <<ds, lv>>
           ELSE LET resp == IF ~ok THEN ds
                            ELSE IF ~kept \/ ds = <<>> THEN <<>>
                            ELSE [ds EXCEPT ![1] =
                                    [@ EXCEPT !.ResourceGrpID = grp, !.JCDept = dept,
                                              !.OpCode = IF @ = "" THEN opc ELSE @]]
                IN /\ UNCHANGED result
                   /\ IF resp = <<>>
                      THEN /\ ds' = resp
                           /\ pc' = "Update"
                           /\ UNCHANGED lv
                      ELSE LET labor_dtl == resp[1]
                           IN /\ lv' = [lv EXCEPT !.default_res_grp = labor_dtl.ResourceGrpID,
                                                  !.default_jc_dept = labor_dtl.JCDept]
                              /\ IF args.resource_grp_id # ""
                                 THEN /\ ds' = [resp EXCEPT ![1] = Finish7(
                                            [labor_dtl EXCEPT !.ResourceGrpID = args.resource_grp_id])]
                                      /\ pc' = "Update"
                                 ELSE IF labor_dtl.ResourceGrpID = ""
                                 THEN /\ ds' = resp
                                      /\ pc' = "JobOpDtl"
                                 ELSE /\ ds' = [resp EXCEPT ![1] = Finish7(labor_dtl)]
                                      /\ pc' = "Update"
    /\ UNCHANGED <<args, LaborHed, LaborDtl, JobOperRows, snapshot, queue, details, materials>>

\* Lines 175-178: the operation-code master is asked when the detail still has
\* no resource group and there is an operation code to ask for
TryOpMaster_Always(row, op_code_val) == op_code_val # ""
TryOpMaster(row, op_code_val) == row.ResourceGrpID = "" /\ op_code_val # ""

\* After the resource-group lookups: look the department up, or finish step 7
AfterGrpLookups(row) ==
    IF NeedsDept(row)
    THEN /\ ds' = [ds EXCEPT ![1] = row]
         /\ pc' = "ResourceGroup"
    ELSE /\ ds' = [ds EXCEPT ![1] = Finish7(row)]
         /\ pc' = "Update"

\* Fallback 1: the job-operation detail record
start_activity_JobOpDtl ==
    /\ pc = "JobOpDtl"
    /\ \E ok \in BOOLEAN, grp \in ArgValues("RG_JOD") :
        /\ calls' = Append(calls, Lookup("JobOpDtls", ok, grp))
        /\ LET row == IF ok /\ grp # ""
                      THEN [ds[1] EXCEPT !.ResourceGrpID = grp] ELSE ds[1]
               op_code_val == IF args.op_code # "" THEN args.op_code ELSE row.OpCode
           IN IF TryOpMaster(row, op_code_val)
              THEN /\ ds' = [ds EXCEPT ![1] = row]
                   /\ pc' = "OpMaster"
              ELSE AfterGrpLookups(row)
    /\ UNCHANGED <<args, lv, result, LaborHed, LaborDtl, JobOperRows, snapshot, queue, details, materials>>

\* Fallback 2: the operation-code master
start_activity_OpMaster ==
    /\ pc = "OpMaster"
    /\ \E ok \in BOOLEAN, grp \in ArgValues("RG_OPM") :
        /\ calls' = Append(calls, Lookup("OpMasters", ok, grp))
        /\ LET row == IF ok /\ grp # ""
                      THEN [ds[1] EXCEPT !.ResourceGrpID = grp] ELSE ds[1]
           IN AfterGrpLookups(row)
    /\ UNCHANGED <<args, lv, result, LaborHed, LaborDtl, JobOperRows, snapshot, queue, details, materials>>

\* The department of the resource group that was found
start_activity_ResourceGroup ==
    /\ pc = "ResourceGroup"
    /\ \E ok \in BOOLEAN, dept \in ArgValues("D_RG") :
        /\ calls' = Append(calls, Lookup("ResourceGroups", ok, dept))
        /\ LET row == IF ok /\ dept # ""
                      THEN [ds[1] EXCEPT !.JCDept = dept] ELSE ds[1]
           IN /\ ds' = [ds EXCEPT ![1] = Finish7(row)]
              /\ pc' = "Update"
    /\ UNCHANGED <<args, lv, result, LaborHed, LaborDtl, JobOperRows, snapshot, queue, details, materials>>

\* Step 8: Update to save; the result carries the identifiers of the answer
start_activity_Update ==
    /\ pc = "Update"
    /\ \E ok \in BOOLEAN, hed_in \in BOOLEAN, dtl_in \in BOOLEAN :
        /\ calls' = Append(calls, Call("Update", ok))
        /\ IF ~ok /\ start_activity_aborts("Update")
           THEN StartAbort("Update") /\ UNCHANGED LaborDtl
           ELSE LET saved == IF ok THEN Save(LaborDtl, ds) ELSE LaborDtl
                    has_dtl == ok /\ dtl_in /\ ds # <<>>
                    has_hed == ok /\ hed_in
                IN /\ LaborDtl' = saved
                   /\ result' = [returned |-> TRUE, success |-> TRUE, error |-> "",
                                 laborHedSeq |-> IF has_hed \/ has_dtl THEN HedSeq ELSE NoneVal,
                                 laborDtlSeq |-> IF has_dtl
                                                 THEN (IF ds[1].RowMod = "A" THEN MaxSeq(saved)
                                                       ELSE ds[1].LaborDtlSeq)
                                                 ELSE NoneVal]
                   /\ pc' = "done"
    /\ UNCHANGED <<args, ds, lv, LaborHed, JobOperRows, snapshot, queue, details, materials>>

NextStart ==
    \/ start_activity_ClockIn
    \/ start_activity_Labors
    \/ start_activity_GetByID
    \/ start_activity_StartActivity
    \/ start_activity_DefaultJobNum
    \/ start_activity_DefaultOprSeq
    \/ start_activity_JobOpDtl
    \/ start_activity_OpMaster
    \/ start_activity_ResourceGroup
    \/ start_activity_Update

SpecStart == InitStart /\ [][NextStart]_vars

----------------------------------------------------------------------------
(* kanban_receipt *)

\* The calls whose non-ok response makes kanban_receipt return a failure
kanban_receipt_aborts_NotPreProcess(api) ==
    api \in {"KanbanReceiptsGetNew", "ChangePart", "ProcessKanbanReceipts"}
kanban_receipt_aborts_NotChangePart(api) ==
    api \in {"KanbanReceiptsGetNew", "PreProcessKanbanReceipts", "ProcessKanbanReceipts"}
kanban_receipt_aborts(api) ==
    api \in {"KanbanReceiptsGetNew", "ChangePart", "PreProcessKanbanReceipts",
             "ProcessKanbanReceipts"}

\* The row KanbanReceiptsGetNew adds to the dataset
NewKanbanRow ==
    [PartNum |-> "", Quantity |-> 0, WarehouseCode |-> "", BinNum |-> "",
     EmployeeID |-> "", ScrapQuantity |-> 0, ScrapReason |-> "", ValidateOK |-> FALSE]

InitKanban ==
    /\ pc = "KanbanReceiptsGetNew"
    /\ args \in [emp_id : {"E1"}, part_num : {"P1"}, quantity : 1..MaxQty,
                 warehouse : {"PROD"}, bin_num : {"PR-01"},
                 scrap : 0..MaxScrap, scrap_reason : ArgValues("SR")]
    /\ ds = <<>>
    /\ lv = [none |-> TRUE]
    /\ calls = <<>>
    /\ result = NoResult
    /\ LaborHed = FALSE
    /\ LaborDtl = <<>>
    /\ JobOperRows = <<>>
    /\ NoSnapshot

KanbanAbort(api) ==
    /\ result' = Failure(api)
    /\ pc' = "done"

\* Step 1: a new receipt row; step 2 puts the part on it
kanban_receipt_GetNew ==
    /\ pc = "KanbanReceiptsGetNew"
    /\ \E ok \in BOOLEAN, created \in BOOLEAN :
        /\ calls' = Append(calls, Call("KanbanReceiptsGetNew", ok))
        /\ IF ~ok /\ kanban_receipt_aborts("KanbanReceiptsGetNew")
           THEN KanbanAbort("KanbanReceiptsGetNew") /\ UNCHANGED ds
           ELSE LET resp == IF ok /\ created THEN <<NewKanbanRow>> ELSE <<>>
                IN IF resp = <<>>
                   THEN /\ result' = Failure("No KanbanReceipts record created by GetNew")
                        /\ pc' = "done"
                        /\ UNCHANGED ds
                   ELSE /\ ds' = [resp EXCEPT ![1] = [@ EXCEPT !.PartNum = args.part_num]]
                        /\ pc' = "ChangePart"
                        /\ UNCHANGED result
    /\ UNCHANGED <<args, lv, LaborHed, LaborDtl, JobOperRows, snapshot, queue, details, materials>>

\* ChangePart validates the part; step 3 sets quantity, warehouse, bin, employee, scrap
kanban_receipt_ChangePart ==
    /\ pc = "ChangePart"
    /\ \E ok \in BOOLEAN, kept \in BOOLEAN :
        /\ calls' = Append(calls, Call("ChangePart", ok))
        /\ IF ~ok /\ kanban_receipt_aborts("ChangePart")
           THEN KanbanAbort("ChangePart") /\ UNCHANGED ds
           ELSE LET resp == IF ok /\ ~kept THEN <<>> ELSE ds
                IN /\ ds' = IF resp # <<>>
                            THEN [resp EXCEPT ![1] =
                                   [@ EXCEPT !.Quantity = args.quantity,
                                             !.WarehouseCode = args.warehouse,
                                             !.BinNum = args.bin_num,
                                             !.EmployeeID = args.emp_id,
                                             !.ScrapQuantity =
                                                 IF args.scrap > 0 /\ args.scrap_reason # ""
                                                 THEN args.scrap ELSE @,
                                             !.ScrapReason =
                                                 IF args.scrap > 0 /\ args.scrap_reason # ""
                                                 THEN args.scrap_reason ELSE @]]
                            ELSE resp
                   /\ pc' = "ChangeWarehouse"
                   /\ UNCHANGED result
    /\ UNCHANGED <<args, lv, LaborHed, LaborDtl, JobOperRows, snapshot, queue, details, materials>>

\* Step 5: ChangeWarehouse; a non-ok answer is logged as a warning
kanban_receipt_ChangeWarehouse ==
    /\ pc = "ChangeWarehouse"
    /\ \E ok \in BOOLEAN :
        /\ calls' = Append(calls, Call("ChangeWarehouse", ok))
        /\ IF ~ok /\ kanban_receipt_aborts("ChangeWarehouse")
           THEN KanbanAbort("ChangeWarehouse")
           ELSE pc' = "ChangeBin" /\ UNCHANGED result
    /\ UNCHANGED <<args, ds, lv, LaborHed, LaborDtl, JobOperRows, snapshot, queue, details, materials>>

\* Step 6: ChangeBin; a non-ok answer is logged as a warning
kanban_receipt_ChangeBin ==
    /\ pc = "ChangeBin"
    /\ \E ok \in BOOLEAN :
        /\ calls' = Append(calls, Call("ChangeBin", ok))
        /\ IF ~ok /\ kanban_receipt_aborts("ChangeBin")
           THEN KanbanAbort("ChangeBin")
           ELSE pc' = "PreProcessKanbanReceipts" /\ UNCHANGED result
    /\ UNCHANGED <<args, ds, lv, LaborHed, LaborDtl, JobOperRows, snapshot, queue, details, materials>>

\* Step 7: the validation transition; then ValidateOK is set on the row
kanban_receipt_PreProcess ==
    /\ pc = "PreProcessKanbanReceipts"
    /\ \E ok \in BOOLEAN :
        /\ calls' = Append(calls, Call("PreProcessKanbanReceipts", ok))
        /\ IF ~ok /\ kanban_receipt_aborts("PreProcessKanbanReceipts")
           THEN KanbanAbort("PreProcessKanbanReceipts") /\ UNCHANGED ds
           ELSE /\ ds' = IF ds # <<>>
                         THEN [ds EXCEPT ![1] = [@ EXCEPT !.ValidateOK = TRUE]]
                         ELSE ds
                /\ pc' = "ProcessKanbanReceipts"
                /\ UNCHANGED result
    /\ UNCHANGED <<args, lv, LaborHed, LaborDtl, JobOperRows, snapshot, queue, details, materials>>

\* Step 8: the commit transition
kanban_receipt_Process ==
    /\ pc = "ProcessKanbanReceipts"
    /\ \E ok \in BOOLEAN :
        /\ calls' = Append(calls, Call("ProcessKanbanReceipts", ok))
        /\ IF ~ok /\ kanban_receipt_aborts("ProcessKanbanReceipts")
           THEN KanbanAbort("ProcessKanbanReceipts")
           ELSE /\ result' = Success
                /\ pc' = "done"
    /\ UNCHANGED <<args, ds, lv, LaborHed, LaborDtl, JobOperRows, snapshot, queue, details, materials>>

NextKanban ==
    \/ kanban_receipt_GetNew
    \/ kanban_receipt_ChangePart
    \/ kanban_receipt_ChangeWarehouse
    \/ kanban_receipt_ChangeBin
    \/ kanban_receipt_PreProcess
    \/ kanban_receipt_Process

SpecKanban == InitKanban /\ [][NextKanban]_vars

----------------------------------------------------------------------------
(* Two orchestrations at once: each request is served by its own thread,   *)
(* the handlers share no variable, and the remote calls of the two         *)
(* interleave.  Orchestration p serves employee p, whose open labor header *)
(* is header p.  start_activity is called with a resource group and no     *)
(* resource, department or capability, so that step 7 issues no lookup;    *)
(* end_activity is followed up to its commit (steps 1-5).                  *)

Procs == {1, 2}

\* Labors?$filter=EmployeeNum eq '{emp_id}' and ActiveTrans eq true ... $top=1
ActiveLaborHed_AnyEmployee(emp_id) == CHOOSE h \in Procs : \A g \in Procs : g <= h
ActiveLaborHed(emp_id) == emp_id

\* The details every header has when the two orchestrations start
InitialDtl == 1 :> RemoteRow("J0", "SAW", 0, 10, "RG0", "R0", "D0", "")

ConcStartArgs(p) ==
    [emp_id : {p}, job_num : {"J1"}, asm_seq : {0}, opr_seq : {10 * p},
     resource_grp_id : {"RG_ARG"}, op_code : ArgValues("WELD")]
ConcEndArgs(p) ==
    [emp_id : {p}, labor_hed_seq : {p}, labor_dtl_seq : {1}, labor_qty : 1..MaxQty,
     scrap_qty : {0}, complete : BOOLEAN]

IsStart(p) == "job_num" \in DOMAIN args[p]

InitConc ==
    /\ args \in [Procs -> UNION {ConcStartArgs(p) \cup ConcEndArgs(p) : p \in Procs}]
    /\ \A p \in Procs : args[p].emp_id = p
    /\ pc = [p \in Procs |-> IF IsStart(p) THEN "Labors" ELSE "GetByID"]
    /\ ds = [p \in Procs |-> [LaborHedSeq |-> NoneVal, LaborDtl |-> <<>>]]
    /\ lv = [p \in Procs |-> [labor_hed_seq |-> IF IsStart(p) THEN NoneVal
                                                ELSE args[p].labor_hed_seq,
                              calculated_hours |-> NoneVal]]
    /\ calls = [p \in Procs |-> <<>>]
    /\ result = [p \in Procs |-> NoResult]
    /\ LaborHed = [p \in Procs |-> TRUE]
    /\ LaborDtl = [h \in Procs |-> InitialDtl]
    /\ JobOperRows \in [Procs -> {<<>>, <<[ProdStandard |-> 1, StdFormat |-> "HP"]>>}]
    /\ NoSnapshot

\* A logged call with what the remote chose to keep
CallUpd(api, ok, st, keeps) == [api |-> api, ok |-> ok, st |-> st, keeps |-> keeps]

\* One step of orchestration p: its call is logged and its locals change
ConcStep(p, call, next_pc, new_ds, new_lv, new_result) ==
    /\ calls' = [calls EXCEPT ![p] = Append(@, call)]
    /\ pc' = [pc EXCEPT ![p] = next_pc]
    /\ ds' = [ds EXCEPT ![p] = new_ds]
    /\ lv' = [lv EXCEPT ![p] = new_lv]
    /\ result' = [result EXCEPT ![p] = new_result]

ConcFail(p, api) ==
    ConcStep(p, Call(api, FALSE), "done", ds[p], lv[p], Failure(api))

ConcFrame == UNCHANGED <<args, LaborHed, JobOperRows, snapshot, queue, details, materials>>

\* start_activity step 2: the active header of the employee
conc_start_Labors(p) ==
    /\ IsStart(p) /\ pc[p] = "Labors"
    /\ \/ ConcFail(p, "Labors")
       \/ ConcStep(p, Call("Labors", TRUE), "GetByID", ds[p],
                   [lv[p] EXCEPT !.labor_hed_seq = ActiveLaborHed(args[p].emp_id)],
                   result[p])
    /\ UNCHANGED LaborDtl /\ ConcFrame

\* start_activity step 3: the dataset of the header, emptied of its details
conc_start_GetByID(p) ==
    /\ IsStart(p) /\ pc[p] = "GetByID"
    /\ \/ ConcFail(p, "GetByID")
       \/ LET h == lv[p].labor_hed_seq
          IN ConcStep(p, Call("GetByID", TRUE), "StartActivity",
                      [LaborHedSeq |-> h,
                       LaborDtl |-> ClearLaborDtl(DsRows(LaborDtl[h], MaxSeq(LaborDtl[h])))],
                      lv[p], result[p])
    /\ UNCHANGED LaborDtl /\ ConcFrame

\* start_activity steps 4-5: the remote adds the new row to the dataset
conc_start_StartActivity(p) ==
    /\ IsStart(p) /\ pc[p] = "StartActivity"
    /\ \/ ConcFail(p, "StartActivity")
       \/ \E created \in BOOLEAN :
             LET resp == IF created THEN Append(ds[p].LaborDtl, NewDtlRow)
                         ELSE ds[p].LaborDtl
             IN IF resp = <<>>
                THEN ConcStep(p, Call("StartActivity", TRUE), "done", ds[p], lv[p],
                              Failure("No LaborDtl record created"))
                ELSE ConcStep(p, Call("StartActivity", TRUE), "DefaultJobNum",
                              [ds[p] EXCEPT !.LaborDtl =
                                  [resp EXCEPT ![1] =
                                      [@ EXCEPT !.JobNum = args[p].job_num,
                                                !.OpCode = IF args[p].op_code # ""
                                                           THEN args[p].op_code ELSE @]]],
                              lv[p], result[p])
    /\ UNCHANGED LaborDtl /\ ConcFrame

\* DefaultJobNum, then step 6 sets the assembly and the operation
conc_start_DefaultJobNum(p) ==
    /\ IsStart(p) /\ pc[p] = "DefaultJobNum"
    /\ \/ ConcFail(p, "DefaultJobNum")
       \/ ConcStep(p, Call("DefaultJobNum", TRUE), "DefaultOprSeq",
                   [ds[p] EXCEPT !.LaborDtl[1].AssemblySeq = args[p].asm_seq,
                                 !.LaborDtl[1].OprSeq = args[p].opr_seq],
                   lv[p], result[p])
    /\ UNCHANGED LaborDtl /\ ConcFrame

\* DefaultOprSeq (a failure is ignored), then step 7 with the caller's resource group
conc_start_DefaultOprSeq(p) ==
    /\ IsStart(p) /\ pc[p] = "DefaultOprSeq"
    /\ \E ok \in BOOLEAN :
          LET row == ds[p].LaborDtl[1]
              dflt == IF ok THEN [row EXCEPT !.ResourceGrpID = "RG_DEF", !.JCDept = "D_DEF",
                                             !.OpCode = IF @ = "" THEN "OP_DEF" ELSE @]
                      ELSE row
          IN ConcStep(p, Call("DefaultOprSeq", ok), "Update",
                      [ds[p] EXCEPT !.LaborDtl[1] =
                          [dflt EXCEPT !.ResourceGrpID = args[p].resource_grp_id,
                                       !.Rework = FALSE]],
                      lv[p], result[p])
    /\ UNCHANGED LaborDtl /\ ConcFrame

\* start_activity step 8: Update saves the dataset under its header
conc_start_Update(p) ==
    /\ IsStart(p) /\ pc[p] = "Update"
    /\ \/ ConcFail(p, "Update") /\ UNCHANGED LaborDtl
       \/ /\ ConcStep(p, Call("Update", TRUE), "done", ds[p], lv[p], Success)
          /\ LaborDtl' = [LaborDtl EXCEPT ![ds[p].LaborHedSeq] = Save(@, ds[p].LaborDtl)]
    /\ ConcFrame

\* end_activity steps 1-2: GetByID of the header, then the quantities on the detail
conc_end_GetByID(p) ==
    /\ ~IsStart(p) /\ pc[p] = "GetByID"
    /\ \/ ConcFail(p, "GetByID")
       \/ LET h == lv[p].labor_hed_seq
              d == args[p].labor_dtl_seq
              fetched == Dataset(LaborDtl[h])
              total_qty == args[p].labor_qty + args[p].scrap_qty
          IN ConcStep(p, Call("GetByID", TRUE), "EndActivity",
                      [LaborHedSeq |-> h,
                       LaborDtl |-> IF d \in DOMAIN fetched
                                    THEN [fetched EXCEPT ![d] =
                                            [@ EXCEPT !.LaborQty = args[p].labor_qty,
                                                      !.ScrapQty = args[p].scrap_qty,
                                                      !.OpComplete = IF args[p].complete
                                                                     THEN TRUE ELSE @,
                                                      !.RowMod = "U"]]
                                    ELSE fetched],
                      [lv[p] EXCEPT !.calculated_hours =
                          IF d \in DOMAIN fetched
                          THEN calculate_labor_hours(JobOperRows[p], total_qty) ELSE @],
                      result[p])
    /\ UNCHANGED LaborDtl /\ ConcFrame

\* end_activity steps 3-4: the remote recomputes the hours, the handler overwrites them
conc_end_EndActivity(p) ==
    /\ ~IsStart(p) /\ pc[p] = "EndActivity"
    /\ \/ ConcFail(p, "EndActivity")
       \/ \E clock \in ClockHours :
             LET d == args[p].labor_dtl_seq
                 rows == ds[p].LaborDtl
                 resp == [x \in DOMAIN rows |->
                            IF rows[x].RowMod = "U"
                            THEN [rows[x] EXCEPT !.LaborHrs = clock] ELSE rows[x]]
             IN ConcStep(p, Call("EndActivity", TRUE), "Update",
                         [ds[p] EXCEPT !.LaborDtl =
                             IF lv[p].calculated_hours # NoneVal /\ d \in DOMAIN resp
                             THEN [resp EXCEPT ![d] =
                                     [@ EXCEPT !.LaborHrs = lv[p].calculated_hours,
                                               !.RowMod = "U"]]
                             ELSE resp],
                         lv[p], result[p])
    /\ UNCHANGED LaborDtl /\ ConcFrame

\* end_activity step 5: Update commits the dataset under its header
conc_end_Update(p) ==
    /\ ~IsStart(p) /\ pc[p] = "Update"
    /\ \/ ConcFail(p, "Update after EndActivity") /\ UNCHANGED LaborDtl
       \/ \E clock \in ClockHours, keeps \in BOOLEAN, st \in TimeStatuses :
             LET d == args[p].labor_dtl_seq
                 rows == ds[p].LaborDtl
                 sent == IF d \in DOMAIN rows THEN rows[d].LaborHrs ELSE 0
             IN /\ ConcStep(p, CallUpd("Update", TRUE, st, keeps), "done",
                            ds[p], lv[p], Success)
                /\ LaborDtl' = [LaborDtl EXCEPT ![ds[p].LaborHedSeq] =
                                   Persist(@, d, rows, IF keeps THEN sent ELSE clock, st)]
    /\ ConcFrame

NextConc ==
    \E p \in Procs :
        \/ conc_start_Labors(p)
        \/ conc_start_GetByID(p)
        \/ conc_start_StartActivity(p)
        \/ conc_start_DefaultJobNum(p)
        \/ conc_start_DefaultOprSeq(p)
        \/ conc_start_Update(p)
        \/ conc_end_GetByID(p)
        \/ conc_end_EndActivity(p)
        \/ conc_end_Update(p)

SpecConc == InitConc /\ [][NextConc]_vars

----------------------------------------------------------------------------
(* One invocation of any of the three handlers *)

\* The handler that was invoked, told by its arguments
Handler ==
    IF "labor_dtl_seq" \in DOMAIN args THEN "end_activity"
    ELSE IF "job_num" \in DOMAIN args THEN "start_activity"
    ELSE "kanban_receipt"

InitHandlers == InitEnd \/ InitStart \/ InitKanban

NextHandlers ==
    \/ Handler = "end_activity" /\ NextEnd
    \/ Handler = "start_activity" /\ NextStart
    \/ Handler = "kanban_receipt" /\ NextKanban

\* Each remote call answers or times out, and the handler then runs on
SpecHandlers == InitHandlers /\ [][NextHandlers]_vars /\ WF_vars(NextHandlers)

----------------------------------------------------------------------------
(* start_activity, then end_activity on the detail it created: the client  *)
(* posts /api/labor/end with the identifiers of the start result,          *)
(* quantity 5 and complete = true.                                         *)

InitStartEnd ==
    /\ InitStart
    /\ args.resource_grp_id # "" /\ args.resource_id = "" /\ args.capability_id = ""
    /\ LaborHed

\* api_labor_end: the request for the detail of the start result
api_labor_end ==
    /\ Handler = "start_activity" /\ pc = "done"
    /\ result.success /\ result.laborDtlSeq # NoneVal
    /\ pc' = "GetByID"
    /\ args' = [labor_dtl_seq |-> result.laborDtlSeq, labor_qty |-> 5,
                scrap_qty |-> 0, complete |-> TRUE]
    /\ ds' = <<>>
    /\ lv' = [calculated_hours |-> NoneVal, found |-> FALSE,
              current_hrs |-> 0, time_status |-> "", wrong |-> FALSE]
    /\ calls' = <<>>
    /\ result' = NoResult
    /\ JobOperRows' \in {<<>>} \cup
          {<<[ProdStandard |-> s, StdFormat |-> f]>> : s \in 0..MaxStd, f \in StdFormats}
    /\ UNCHANGED <<LaborHed, LaborDtl, snapshot, queue, details, materials>>

NextStartEnd ==
    \/ Handler = "start_activity" /\ NextStart
    \/ api_labor_end
    \/ Handler = "end_activity" /\ NextEnd

SpecStartEnd == InitStartEnd /\ [][NextStartEnd]_vars

----------------------------------------------------------------------------
(* get_jobs_for_workcell *)

\* The work-cell configuration loaded from config/workcells.json
WORKCELLS ==
    [W1 |-> [name |-> "Weld", ops |-> {"WELD"}],
     W0 |-> [name |-> "Idle", ops |-> {}],
     WD |-> [name |-> "Burn", dashboard_type |-> "burn"]]

\* WORKCELLS[workcell_id]['ops'] raises KeyError for an entry without the key
get_workcell_ops_raises(workcell_id) ==
    workcell_id \in DOMAIN WORKCELLS /\ "ops" \notin DOMAIN WORKCELLS[workcell_id]

get_workcell_ops(workcell_id) ==
    IF workcell_id \notin DOMAIN WORKCELLS THEN {}
    ELSE WORKCELLS[workcell_id].ops

\* The override values of JobOper.SchedRelation in rule 3
OverrideRelations_NoFF == {"SS"}
OverrideRelations == {"SS", "FF"}

SameAsm(p, k) == p[1] = k[1] /\ p[2] = k[2]

\* jo_prior of the PriorOpQty CTE: the non-backflush operations before k on its assembly
PriorOps(k) ==
    {p \in DOMAIN JobOper :
        SameAsm(p, k) /\ p[3] < k[3] /\ JobOper[p].LaborEntryMethod # "B"}

\* SELECT TOP 1 ... ORDER BY jo_prior.OprSeq DESC
TopPrior_Asc(k) == CHOOSE p \in PriorOps(k) : \A r \in PriorOps(k) : p[3] <= r[3]
TopPrior(k) == CHOOSE p \in PriorOps(k) : \A r \in PriorOps(k) : r[3] <= p[3]

\* The PriorOpQty CTE, one row per non-backflush operation
PriorOpQty(k) ==
    [QtyFromPrior |-> IF PriorOps(k) = {} THEN 0 ELSE JobOper[TopPrior(k)].QtyCompleted,
     IsFirstOp |-> IF PriorOps(k) = {} THEN 1 ELSE 0]

\* last_ops of the SubAsmComplete CTE: the last non-backflush operation of every
\* sub-assembly of the job
LastOps_First(job) ==
    {k \in DOMAIN JobOper :
        /\ k[1] = job /\ k[2] > 0 /\ JobOper[k].LaborEntryMethod # "B"
        /\ \A r \in DOMAIN JobOper :
              (SameAsm(r, k) /\ JobOper[r].LaborEntryMethod # "B") => k[3] <= r[3]}
LastOps(job) ==
    {k \in DOMAIN JobOper :
        /\ k[1] = job /\ k[2] > 0 /\ JobOper[k].LaborEntryMethod # "B"
        /\ \A r \in DOMAIN JobOper :
              (SameAsm(r, k) /\ JobOper[r].LaborEntryMethod # "B") => r[3] <= k[3]}

\* The SubAsmComplete CTE
AllSubAsmsReady(job) ==
    IF ~ \E l \in LastOps(job) : JobOper[l].QtyCompleted = 0 THEN 1 ELSE 0

\* The WHERE clause of the main query, over the INNER JOINs of JobHead, JobOper,
\* PriorOpQty and SubAsmComplete
Where(k, ops) ==
    /\ JobHead[k[1]].JobComplete = FALSE
    /\ JobHead[k[1]].JobReleased = TRUE
    /\ JobOper[k].OpCode \in ops
    /\ JobOper[k].OpComplete = FALSE
    /\ JobOper[k].LaborEntryMethod # "B"
    /\ \/ PriorOpQty(k).IsFirstOp = 1
       \/ PriorOpQty(k).QtyFromPrior > 0
       \/ JobOper[k].SchedRelation \in OverrideRelations
    /\ (k[2] > 0 \/ AllSubAsmsReady(k[1]) = 1)

\* LEFT JOIN Ice.XFileAttch / Ice.XFileRef: one row per attached file of the
\* assembly's part revision, and one row with a NULL PdfPath (0) when there is none
PdfPaths(k) ==
    IF XFileAttch[<<k[1], k[2]>>] = 0 THEN {0}
    ELSE 1..XFileAttch[<<k[1], k[2]>>]

\* The operation a material requirement is related to
SourceOp(m) == <<JobMtl[m].JobNum, JobMtl[m].AssemblySeq, JobMtl[m].RelatedOperation>>

\* jo_next of the OpOwnership CTE: the non-backflush operations after k on its assembly
NextOps(k) ==
    {n \in DOMAIN JobOper :
        SameAsm(n, k) /\ n[3] > k[3] /\ JobOper[n].LaborEntryMethod # "B"}

\* OpOwnership.OwnerOprSeq: a quantity operation owns itself, a backflush operation
\* belongs to the next quantity operation; NULL (NoneVal) when there is none
OwnerOprSeq(k) ==
    IF JobOper[k].LaborEntryMethod # "B" THEN k[3]
    ELSE IF NextOps(k) = {} THEN NoneVal
    ELSE (CHOOSE n \in NextOps(k) : \A r \in NextOps(k) : n[3] <= r[3])[3]

\* ISNULL(pq.OnHandQty, 0) and ISNULL(pq.DemandQty, dflt) over the LEFT JOIN of PartQty
ISNULL_OnHandQty(m) ==
    IF JobMtl[m].PartNum \in DOMAIN PartQty THEN PartQty[JobMtl[m].PartNum].OnHandQty ELSE 0
ISNULL_DemandQty(m, dflt) ==
    IF JobMtl[m].PartNum \in DOMAIN PartQty THEN PartQty[JobMtl[m].PartNum].DemandQty ELSE dflt

\* The rows MaterialAgg groups under the owner operation k
MaterialAggRows(k) ==
    {m \in DOMAIN JobMtl :
        /\ SourceOp(m) \in DOMAIN JobOper
        /\ SameAsm(SourceOp(m), k)
        /\ JobMtl[m].RequiredQty > 0
        /\ JobOper[SourceOp(m)].OpCode # "PAINT"
        /\ OwnerOprSeq(SourceOp(m)) # NoneVal
        /\ OwnerOprSeq(SourceOp(m)) = k[3]}

\* The MaterialAgg CTE; the row is absent (TotalMtls NULL, here 0) when no row is grouped
MaterialAgg(k) ==
    LET rows == MaterialAggRows(k)
    IN [TotalMtls |-> Cardinality(rows),
        StarMtls |-> Cardinality({m \in rows :
            ISNULL_OnHandQty(m) >= ISNULL_DemandQty(m, JobMtl[m].RequiredQty)}),
        CheckMtls |-> Cardinality({m \in rows :
            /\ ISNULL_OnHandQty(m) >= JobMtl[m].RequiredQty
            /\ ISNULL_OnHandQty(m) < ISNULL_DemandQty(m, JobMtl[m].RequiredQty + 1)}),
        PartialMtls |-> Cardinality({m \in rows :
            ISNULL_OnHandQty(m) > 0 /\ ISNULL_OnHandQty(m) < JobMtl[m].RequiredQty}),
        NoneMtls |-> Cardinality({m \in rows : ISNULL_OnHandQty(m) = 0})]

\* The CASE of the SELECT list
MtlStatus(ma) ==
    IF ma.TotalMtls = 0 THEN "none"
    ELSE IF ma.NoneMtls > 0 THEN "missing"
    ELSE IF ma.PartialMtls > 0 THEN "partial"
    ELSE IF ma.CheckMtls > 0 THEN "check"
    ELSE IF ma.StarMtls = ma.TotalMtls THEN "star"
    ELSE "none"

\* CASE WHEN jo.AssemblySeq > 0 THEN ja.PartNum ELSE jh.PartNum END AS PartNum
SelectPartNum(k) ==
    IF k[2] > 0 THEN JobAsmbl[<<k[1], k[2]>>].PartNum ELSE JobHead[k[1]].PartNum

\* CASE WHEN jo.AssemblySeq > 0 THEN ja.RequiredQty ELSE jh.ProdQty END AS ProdQty
SelectProdQty(k) ==
    IF k[2] > 0 THEN JobAsmbl[<<k[1], k[2]>>].RequiredQty ELSE JobHead[k[1]].ProdQty

\* The SELECT list
QueueRow(k, pdf) ==
    [JobNum |-> k[1], AssemblySeq |-> k[2], OprSeq |-> k[3],
     PartNum |-> SelectPartNum(k),
     ProdQty |-> SelectProdQty(k),
     OpCode |-> JobOper[k].OpCode,
     QtyCompletedThisOp |-> JobOper[k].QtyCompleted,
     QtyLeft |-> JobHead[k[1]].ProdQty - JobOper[k].QtyCompleted,
     QtyFromPrior |-> PriorOpQty(k).QtyFromPrior,
     IsFirstOp |-> PriorOpQty(k).IsFirstOp,
     StartDate |-> JobHead[k[1]].StartDate,
     MtlStatus |-> MtlStatus(MaterialAgg(k)),
     TotalMtls |-> MaterialAgg(k).TotalMtls,
     PdfPath |-> pdf]

ResultRows(ops) ==
    UNION {{QueueRow(k, pdf) : pdf \in PdfPaths(k)} :
              k \in {x \in DOMAIN JobOper : Where(x, ops)}}

\* ORDER BY jh.StartDate, jh.JobNum, jo.AssemblySeq, jo.OprSeq
OrderKey(r) == <<r.StartDate, r.JobNum, r.AssemblySeq, r.OprSeq>>

RECURSIVE LexLeq(_, _)
LexLeq(a, b) ==
    IF a = <<>> THEN TRUE
    ELSE IF Head(a) < Head(b) THEN TRUE
    ELSE IF Head(a) > Head(b) THEN FALSE
    ELSE LexLeq(Tail(a), Tail(b))

\* Every order the ORDER BY allows: rows that tie on the four keys come in any order
RECURSIVE OrderBy(_)
OrderBy(rows) ==
    IF rows = {} THEN {<<>>}
    ELSE UNION {{<<m>> \o t : t \in OrderBy(rows \ {m})} :
                  m \in {x \in rows : \A y \in rows : LexLeq(OrderKey(x), OrderKey(y))}}

\* The result sets the query can return for a work cell
get_jobs_for_workcell(workcell_id) ==
    LET ops == get_workcell_ops(workcell_id)
    IN IF ops = {} THEN {<<>>}
       ELSE OrderBy(ResultRows(ops))

\* The snapshots of the model: the operations of an assembly are numbered 10, 20, ...
JobNums == 1..MaxJobs
Asms == 0..MaxAsm

RECURSIVE SumOver(_, _)
SumOver(f, S) ==
    IF S = {} THEN 0
    ELSE LET x == CHOOSE y \in S : TRUE IN f[x] + SumOver(f, S \ {x})

Shapes == {n \in [JobNums \X Asms -> 0..MaxOps] : SumOver(n, JobNums \X Asms) <= MaxOps}

InitQueue ==
    /\ pc = "GetQueue"
    /\ args = [workcell_id |-> "W1"]
    /\ ds = <<>>
    /\ lv = [none |-> TRUE]
    /\ calls = <<>>
    /\ result = NoResult
    /\ LaborHed = FALSE
    /\ LaborDtl = <<>>
    /\ JobOperRows = <<>>
    /\ JobHead \in [JobNums -> [JobReleased : BOOLEAN, JobComplete : BOOLEAN, StartDate : {1},
                                 PartNum : {"A0"}, ProdQty : {1}]]
    /\ \E n \in Shapes :
          LET keys == {k \in JobNums \X Asms \X {10 * i : i \in 1..MaxOps} :
                          k[3] <= 10 * n[<<k[1], k[2]>>]}
          IN /\ JobOper \in [keys ->
                   [OpCode : {"WELD", "SAW"}, OpComplete : BOOLEAN,
                    QtyCompleted : 0..MaxCompleted, LaborEntryMethod : {"Q"},
                    SchedRelation : {"FS", "SS", "FF"}]
                   \cup
                   [OpCode : {"DEBURR"}, OpComplete : {FALSE},
                    QtyCompleted : 0..MaxCompleted, LaborEntryMethod : {"B"},
                    SchedRelation : {"FS"}]]
             /\ JobAsmbl = [ja \in {x \in JobNums \X Asms : n[x] > 0} |->
                               [PartNum |-> IF ja[2] > 0 THEN "A1" ELSE "A0",
                                RequiredQty |-> 1]]
             /\ XFileAttch \in [{ja \in JobNums \X Asms : n[ja] > 0} -> 0..MaxAttach]
    /\ JobMtl = <<>>
    /\ PartQty = <<>>
    /\ queue = <<>>
    /\ details = <<>>
    /\ materials = <<>>

\* One request: the rows of the query for the work cell, over the snapshot;
\* an exception of get_workcell_ops is not caught
GetQueue ==
    /\ pc = "GetQueue"
    /\ IF get_workcell_ops_raises(args.workcell_id)
       THEN /\ pc' = "raised"
            /\ result' = [result EXCEPT !.error = "KeyError"]
            /\ UNCHANGED queue
       ELSE /\ queue' \in get_jobs_for_workcell(args.workcell_id)
            /\ pc' = "done"
            /\ UNCHANGED result
    /\ UNCHANGED <<args, ds, lv, calls, LaborHed, LaborDtl, JobOperRows, snapshot,
                   details, materials>>

NextQueue == GetQueue

SpecQueue == InitQueue /\ [][NextQueue]_vars

\* Requests for every kind of work-cell id, over the snapshots of one operation
WorkcellIds == DOMAIN WORKCELLS \cup {"WX"}

InitWorkcell ==
    /\ pc = "GetQueue"
    /\ args \in [workcell_id : WorkcellIds]
    /\ ds = <<>>
    /\ lv = [none |-> TRUE]
    /\ calls = <<>>
    /\ result = NoResult
    /\ LaborHed = FALSE
    /\ LaborDtl = <<>>
    /\ JobOperRows = <<>>
    /\ JobHead \in [{1} -> [JobReleased : BOOLEAN, JobComplete : BOOLEAN, StartDate : {1},
                             PartNum : {"A0"}, ProdQty : {1}]]
    /\ JobOper \in [{<<1, 0, 10>>} ->
           [OpCode : {"WELD", "SAW"}, OpComplete : BOOLEAN,
            QtyCompleted : 0..MaxCompleted, LaborEntryMethod : {"Q", "B"},
            SchedRelation : {"FS", "SS"}]]
    /\ JobAsmbl = [ja \in {<<1, 0>>} |-> [PartNum |-> "A0", RequiredQty |-> 1]]
    /\ XFileAttch \in [{<<1, 0>>} -> 0..MaxAttach]
    /\ JobMtl = <<>>
    /\ PartQty = <<>>
    /\ queue = <<>>
    /\ details = <<>>
    /\ materials = <<>>

SpecWorkcell == InitWorkcell /\ [][NextQueue]_vars

----------------------------------------------------------------------------
(* get_bulk_materials, get_active_labor_details, get_job_materials *)

\* Bounds of the material snapshots
MaxMtl == 2      \* material requirements of a snapshot
MaxReq == 2      \* JobMtl.RequiredQty in 0..MaxReq
MaxOnHand == 2   \* summed PartQty.OnHandQty in -1..MaxOnHand
MaxDemand == 2   \* summed PartQty.DemandQty in 0..MaxDemand

\* ORDER BY JobNum, AssemblySeq, OprSeq: the operations of an assembly in sequence order
RECURSIVE SortOps(_)
SortOps(S) ==
    IF S = {} THEN <<>>
    ELSE LET k == CHOOSE x \in S : \A y \in S : x[3] <= y[3]
         IN <<k>> \o SortOps(S \ {k})

all_ops(job, asm) == SortOps({k \in DOMAIN JobOper : k[1] = job /\ k[2] = asm})

\* pending_backflush = [] after a quantity operation took the pending list
pending_after_visible_Keep(pending) == pending
pending_after_visible(pending) == <<>>

\* Lines 307-320: walk the operations of an assembly, a quantity operation owns the
\* pending non-PAINT backflush operations and itself
RECURSIVE WalkOps(_, _, _)
WalkOps(ops, pending_backflush, mapping) ==
    IF ops = <<>> THEN mapping
    ELSE LET op == Head(ops)
             is_backflush == JobOper[op].LaborEntryMethod = "B"
             is_paint == JobOper[op].OpCode = "PAINT"
         IN IF is_backflush
            THEN WalkOps(Tail(ops),
                         IF ~is_paint THEN Append(pending_backflush, op)
                         ELSE pending_backflush,
                         mapping)
            ELSE WalkOps(Tail(ops), pending_after_visible(pending_backflush),
                         mapping @@ (op :> Append(pending_backflush, op)))

\* op_mapping: (job, asm, opr) of a quantity operation -> the operations whose
\* materials it shows
op_mapping ==
    [k \in {x \in DOMAIN JobOper : JobOper[x].LaborEntryMethod # "B"} |->
        WalkOps(all_ops(k[1], k[2]), <<>>, <<>>)[k]]

Range(f) == {f[i] : i \in DOMAIN f}

\* inv.get(field, 0) or 0
InvOrZero(part, field) ==
    IF part \in DOMAIN PartQty THEN PartQty[part][field] ELSE 0

\* The materials get_bulk_materials returns under the key of an operation
get_bulk_materials(key) ==
    IF key \notin DOMAIN op_mapping THEN {}
    ELSE {[MtlSeq |-> m,
           RequiredQty |-> JobMtl[m].RequiredQty,
           OnHandQty |-> InvOrZero(JobMtl[m].PartNum, "OnHandQty"),
           DemandQty |-> InvOrZero(JobMtl[m].PartNum, "DemandQty")] :
             m \in {x \in DOMAIN JobMtl :
                      /\ JobMtl[x].RequiredQty > 0
                      /\ ~(SourceOp(x) \in DOMAIN JobOper
                           /\ JobOper[SourceOp(x)].OpCode = "PAINT")
                      /\ SourceOp(x) \in Range(op_mapping[key])}}

\* x or y of Python, over numbers
Or(x, y) == IF x # 0 THEN x ELSE y

\* Lines 1374-1411 of get_active_labor_details: the status over the materials
mtl_status(mtls) ==
    LET on_hand(m) == Or(m.OnHandQty, 0)
        required(m) == Or(m.RequiredQty, 0)
        demand(m) == Or(m.DemandQty, required(m))
        missing(m) == on_hand(m) = 0
        partial(m) == ~missing(m) /\ on_hand(m) < required(m)
        check(m) == ~missing(m) /\ ~partial(m) /\ on_hand(m) < demand(m)
        has_missing == \E m \in mtls : missing(m)
        has_partial == \E m \in mtls : partial(m)
        has_check == \E m \in mtls : check(m)
        all_star == ~ \E m \in mtls : missing(m) \/ partial(m) \/ check(m)
    IN IF mtls = {} THEN "none"
       ELSE IF has_missing THEN "missing"
       ELSE IF has_partial THEN "partial"
       ELSE IF has_check THEN "check"
       ELSE IF all_star THEN "star"
       ELSE "none"

RECURSIVE Pow2(_)
Pow2(n) == IF n = 0 THEN 1 ELSE 2 * Pow2(n - 1)

\* 2^n modulo p
RECURSIVE Pow2Mod(_, _)
Pow2Mod(n, p) == IF n = 0 THEN 1 % p ELSE (2 * Pow2Mod(n - 1, p)) % p

\* The binary exponent of the quotient r / p of two positive integers:
\* the u with 2^u <= r / p < 2^(u + 1)
FloorLog2(r, p) ==
    IF r >= p
    THEN CHOOSE u \in 0..20 : p * Pow2(u) <= r /\ r < p * Pow2(u + 1)
    ELSE 0 - (CHOOSE v \in 1..20 : r * Pow2(v) >= p /\ r * Pow2(v - 1) < p)

\* sql_query turns every Decimal into a float (lines 48-52), so the quantities
\* are IEEE-754 doubles: 53 significant bits, every operation rounded to the
\* nearest double.  Over whole numbers the products below are exact and only the
\* two divisions round.
\*
\* per_unit_need = required / prod_qty is the double M / 2^(52 - u), u the
\* exponent of the quotient and M the integer nearest to
\* required * 2^(52 - u) / prod_qty.  When M is the integer above it,
\* M * prod_qty exceeds required * 2^(52 - u) by prod_qty - rem, rem the
\* remainder of the division; the value is 0 when M is exact or the integer below.
per_unit_need_Excess(required, prod_qty) ==
    LET u == FloorLog2(required, prod_qty)
        rem == ((required % prod_qty) * Pow2Mod(52 - u, prod_qty)) % prod_qty
    IN IF 2 * rem > prod_qty THEN prod_qty - rem ELSE 0

\* can_make = on_hand / per_unit_need when on_hand * prod_qty / required is the
\* whole number N >= 1: the exact quotient is N * (1 - a / (required * 2^(52 - u) + a)),
\* a the excess of per_unit_need, and it rounds to the double below N when it is
\* more than half the spacing 2^(E - 52) of the doubles below N away from N
can_make_Below(N, required, prod_qty) ==
    LET a == per_unit_need_Excess(required, prod_qty)
        u == FloorLog2(required, prod_qty)
        E == IF N = Pow2(FloorLog2(N, 1)) THEN FloorLog2(N, 1) - 1 ELSE FloorLog2(N, 1)
        d == 1 + u - E
    IN IF d >= 0 THEN N * a * Pow2(d) > required
       ELSE N * a > required * Pow2(0 - d)

\* Lines 1400-1403 and 1420: int(on_hand / (required / prod_qty)) for whole
\* quantities with required > 0 and prod_qty > 0.  int() drops the fraction
\* (rounds toward zero); a quotient that is not a whole number is at least
\* 1 / required away from one, far more than the rounding moves it.
int_can_make(on_hand, required, prod_qty) ==
    LET mag == Abs(on_hand) * prod_qty
        N == mag \div required
        whole == IF mag % required = 0 /\ N > 0 /\ can_make_Below(N, required, prod_qty)
                 THEN N - 1 ELSE N
    IN IF on_hand >= 0 THEN whole ELSE 0 - whole

\* Lines 1373-1421 of get_active_labor_details: max_mtl_qty, <<>> for None and
\* <<n>> for the number n.  int() is monotonic, so int(min(can_make ...)) is the
\* least of the int(can_make).
max_mtl_qty(mtls, prod_qty) ==
    LET bounding == {m \in mtls : Or(m.RequiredQty, 0) > 0 /\ prod_qty > 0}
        can_make == {int_can_make(Or(m.OnHandQty, 0), Or(m.RequiredQty, 0), prod_qty) :
                        m \in bounding}
    IN IF bounding = {} THEN <<>>
       ELSE <<CHOOSE x \in can_make : \A y \in can_make : x <= y>>

\* Lines 1356-1434 of get_active_labor_details: the details of one operation
details_row(k) ==
    LET prod_qty == Or(SelectProdQty(k), 0)
        qty_completed == Or(JobOper[k].QtyCompleted, 0)
        qty_left == prod_qty - qty_completed
    IN [PartNum |-> SelectPartNum(k),
        OpCode |-> JobOper[k].OpCode,
        ProdQty |-> prod_qty,
        QtyCompleted |-> qty_completed,
        QtyLeft |-> qty_left,
        MtlStatus |-> mtl_status(get_bulk_materials(k)),
        MaxMtlQty |-> max_mtl_qty(get_bulk_materials(k), prod_qty)]

\* Lines 1272-1289 of get_job_materials: the status of one material
material_Status(on_hand, required, demand) ==
    IF on_hand >= demand THEN "star"
    ELSE IF on_hand >= required THEN "check"
    ELSE IF on_hand > 0 THEN "partial"
    ELSE "missing"

\* The snapshots: one released job, its top assembly, quantity operations that
\* are all ready for the work cell W1, backflush operations, some of them PAINT
MtlOpRows ==
    [OpCode : {"WELD"}, OpComplete : {FALSE}, QtyCompleted : {1},
     LaborEntryMethod : {"Q"}, SchedRelation : {"FS"}]
    \cup
    [OpCode : {"DEBURR", "PAINT"}, OpComplete : {FALSE}, QtyCompleted : {0},
     LaborEntryMethod : {"B"}, SchedRelation : {"FS"}]

InitMtl ==
    /\ pc = "get_active_labor_details"
    /\ args = [workcell_id |-> "W1"]
    /\ ds = <<>>
    /\ lv = [none |-> TRUE]
    /\ calls = <<>>
    /\ result = NoResult
    /\ LaborHed = FALSE
    /\ LaborDtl = <<>>
    /\ JobOperRows = <<>>
    /\ JobHead = [j \in {1} |-> [JobReleased |-> TRUE, JobComplete |-> FALSE, StartDate |-> 1,
                                  PartNum |-> "A0", ProdQty |-> 1]]
    /\ \E n \in 1..MaxOps :
          /\ JobOper \in [{<<1, 0, 10 * i>> : i \in 1..n} -> MtlOpRows]
          /\ JobAsmbl = [ja \in {<<1, 0>>} |-> [PartNum |-> "A0", RequiredQty |-> 1]]
          /\ XFileAttch = [ja \in {<<1, 0>>} |-> 0]
    /\ \E n \in 0..MaxMtl :
          /\ JobMtl \in [1..n -> [JobNum : {1}, AssemblySeq : {0},
                                   RelatedOperation : {10, 20},
                                   PartNum : {"P1", "P2"}, RequiredQty : 0..MaxReq]]
          /\ \A m \in 1..n : JobMtl[m].PartNum = IF m = 1 THEN "P1" ELSE "P2"
          /\ \E parts \in SUBSET {JobMtl[m].PartNum : m \in 1..n} :
                PartQty \in [parts -> [OnHandQty : (0 - 1)..MaxOnHand,
                                       DemandQty : 0..MaxDemand]]
    /\ queue = <<>>
    /\ details = <<>>
    /\ materials = <<>>

\* get_active_labor_details for every operation of the snapshot
get_active_labor_details ==
    /\ pc = "get_active_labor_details"
    /\ lv' = [op_mapping |-> op_mapping]
    /\ details' = [k \in DOMAIN JobOper |-> details_row(k)]
    /\ pc' = "get_job_materials"
    /\ UNCHANGED <<args, ds, calls, result, LaborHed, LaborDtl, JobOperRows, snapshot,
                   queue, materials>>

\* get_job_materials for every operation of the snapshot, one request each
get_job_materials ==
    /\ pc = "get_job_materials"
    /\ materials' =
          [k \in DOMAIN JobOper |->
              {[MtlSeq |-> m,
                Status |-> material_Status(
                   InvOrZero(JobMtl[m].PartNum, "OnHandQty"),
                   Or(JobMtl[m].RequiredQty, 0),
                   Or(InvOrZero(JobMtl[m].PartNum, "DemandQty"),
                      JobMtl[m].RequiredQty))] :
                  m \in {x \in DOMAIN JobMtl :
                           SourceOp(x) = k /\ JobMtl[x].RequiredQty > 0}}]
    /\ pc' = "GetQueue"
    /\ UNCHANGED <<args, ds, lv, calls, result, LaborHed, LaborDtl, JobOperRows, snapshot,
                   queue, details>>

NextMtl ==
    \/ get_active_labor_details
    \/ get_job_materials
    \/ GetQueue

SpecMtl == InitMtl /\ [][NextMtl]_vars

\* The snapshots for the ownership of materials: as above, and the quantity
\* operations have the code WELD or PAINT; every part is in stock
OwnOpRows ==
    [OpCode : {"WELD", "PAINT"}, OpComplete : {FALSE}, QtyCompleted : {1},
     LaborEntryMethod : {"Q"}, SchedRelation : {"FS"}]
    \cup
    [OpCode : {"DEBURR", "PAINT"}, OpComplete : {FALSE}, QtyCompleted : {0},
     LaborEntryMethod : {"B"}, SchedRelation : {"FS"}]

InitOwn ==
    /\ pc = "get_active_labor_details"
    /\ args = [workcell_id |-> "W1"]
    /\ ds = <<>>
    /\ lv = [none |-> TRUE]
    /\ calls = <<>>
    /\ result = NoResult
    /\ LaborHed = FALSE
    /\ LaborDtl = <<>>
    /\ JobOperRows = <<>>
    /\ JobHead = [j \in {1} |-> [JobReleased |-> TRUE, JobComplete |-> FALSE, StartDate |-> 1,
                                  PartNum |-> "A0", ProdQty |-> 1]]
    /\ \E n \in 1..MaxOps :
          /\ JobOper \in [{<<1, 0, 10 * i>> : i \in 1..n} -> OwnOpRows]
          /\ JobAsmbl = [ja \in {<<1, 0>>} |-> [PartNum |-> "A0", RequiredQty |-> 1]]
          /\ XFileAttch = [ja \in {<<1, 0>>} |-> 0]
    /\ \E n \in 0..MaxMtl :
          /\ JobMtl \in [1..n -> [JobNum : {1}, AssemblySeq : {0},
                                   RelatedOperation : {10, 20},
                                   PartNum : {"P1", "P2"}, RequiredQty : 0..MaxReq]]
          /\ \A m \in 1..n : JobMtl[m].PartNum = IF m = 1 THEN "P1" ELSE "P2"
          /\ PartQty = [part \in {JobMtl[m].PartNum : m \in 1..n} |->
                           [OnHandQty |-> MaxOnHand, DemandQty |-> 0]]
    /\ queue = <<>>
    /\ details = <<>>
    /\ materials = <<>>

SpecOwn == InitOwn /\ [][NextMtl]_vars

\* The snapshots for the producible quantity: one quantity operation with its
\* materials, over wider ranges of the quantities
MaxProd == 7     \* JobHead.ProdQty in 0..MaxProd
MaxNeed == 9     \* JobMtl.RequiredQty in 0..MaxNeed
MaxStock == 9    \* summed PartQty.OnHandQty in -1..MaxStock

InitProd ==
    /\ pc = "get_active_labor_details"
    /\ args = [workcell_id |-> "W1"]
    /\ ds = <<>>
    /\ lv = [none |-> TRUE]
    /\ calls = <<>>
    /\ result = NoResult
    /\ LaborHed = FALSE
    /\ LaborDtl = <<>>
    /\ JobOperRows = <<>>
    /\ JobHead \in [{1} -> [JobReleased : {TRUE}, JobComplete : {FALSE}, StartDate : {1},
                             PartNum : {"A0"}, ProdQty : 0..MaxProd]]
    /\ JobOper = [k \in {<<1, 0, 10>>} |->
                     [OpCode |-> "WELD", OpComplete |-> FALSE, QtyCompleted |-> 0,
                      LaborEntryMethod |-> "Q", SchedRelation |-> "FS"]]
    /\ JobAsmbl = [ja \in {<<1, 0>>} |-> [PartNum |-> "A0", RequiredQty |-> JobHead[1].ProdQty]]
    /\ XFileAttch = [ja \in {<<1, 0>>} |-> 0]
    /\ \E n \in 0..MaxMtl :
          /\ JobMtl \in [1..n -> [JobNum : {1}, AssemblySeq : {0},
                                   RelatedOperation : {10},
                                   PartNum : {"P1", "P2"}, RequiredQty : 0..MaxNeed]]
          /\ \A m \in 1..n : JobMtl[m].PartNum = IF m = 1 THEN "P1" ELSE "P2"
          /\ PartQty \in [{JobMtl[m].PartNum : m \in 1..n} ->
                           [OnHandQty : (0 - 1)..MaxStock, DemandQty : {0}]]
    /\ queue = <<>>
    /\ details = <<>>
    /\ materials = <<>>

SpecProd == InitProd /\ [][NextMtl]_vars

\* The snapshots for the rows of an assembly: one job, an operation on the top
\* assembly and one on a sub-assembly
InitAsm ==
    /\ pc = "get_active_labor_details"
    /\ args = [workcell_id |-> "W1"]
    /\ ds = <<>>
    /\ lv = [none |-> TRUE]
    /\ calls = <<>>
    /\ result = NoResult
    /\ LaborHed = FALSE
    /\ LaborDtl = <<>>
    /\ JobOperRows = <<>>
    /\ JobHead \in [{1} -> [JobReleased : {TRUE}, JobComplete : {FALSE}, StartDate : {1},
                             PartNum : {"A0"}, ProdQty : 0..MaxQty]]
    /\ JobOper \in [{<<1, 0, 10>>, <<1, 1, 10>>} ->
                      [OpCode : {"WELD", "SAW"}, OpComplete : {FALSE},
                       QtyCompleted : 0..MaxCompleted, LaborEntryMethod : {"Q"},
                       SchedRelation : {"FS"}]]
    /\ JobAsmbl \in [{<<1, 0>>, <<1, 1>>} -> [PartNum : {"A0", "A1"}, RequiredQty : 0..MaxQty]]
    /\ JobAsmbl[<<1, 0>>] = [PartNum |-> "A0", RequiredQty |-> JobHead[1].ProdQty]
    /\ JobAsmbl[<<1, 1>>].PartNum = "A1"
    /\ XFileAttch = [ja \in {<<1, 0>>, <<1, 1>>} |-> 0]
    /\ JobMtl = <<>>
    /\ PartQty = <<>>
    /\ queue = <<>>
    /\ details = <<>>
    /\ materials = <<>>

SpecAsm == InitAsm /\ [][NextMtl]_vars

----------------------------------------------------------------------------
(* Claims about end_activity *)

IsCall(i, api) == i \in DOMAIN calls /\ calls[i].api = api
RecallFailedAt(i) == IsCall(i, "RecallFromApproval") /\ ~(calls[i].ok /\ calls[i].st = "E")
RecallEditableAt(i) == IsCall(i, "RecallFromApproval") /\ calls[i].ok /\ calls[i].st = "E"

\* C1: end_activity returns a failure whenever the dataset fetched for the header
\* holds no detail with the given LaborDtlSeq; it never returns success for a
\* detail that is absent from the header.
C1_AbsentDetailFails ==
    (result.returned /\ args.labor_dtl_seq \notin DOMAIN LaborDtl) => ~result.success

\* C2: when the re-fetched hours differ from the standard-based hours and the
\* detail is submitted or approved, the next call is RecallFromApproval; an Update
\* follows only a recall that succeeded and left the detail editable, and
\* SubmitForApproval follows only that successful Update: recall, update, submit.
C2_RecallUpdateSubmitOrder ==
    /\ \A i \in DOMAIN calls :
          calls[i].api = "SubmitForApproval" =>
             /\ i > 2
             /\ RecallEditableAt(i - 2)
             /\ IsCall(i - 1, "Update") /\ calls[i - 1].ok
    /\ (lv.wrong /\ lv.time_status \in {"S", "A"}) =>
          /\ Len(calls) = 4 => pc = "Recall"
          /\ Len(calls) > 4 => IsCall(5, "RecallFromApproval")
          /\ \A i \in DOMAIN calls :
                (i > 4 /\ calls[i].api = "Update") => RecallEditableAt(i - 1)

C2_Witness ==
    /\ pc = "done"
    /\ lv.wrong /\ lv.time_status \in {"S", "A"}
    /\ \E i \in DOMAIN calls : calls[i].api = "SubmitForApproval" /\ calls[i].ok

\* C3: if RecallFromApproval fails or does not leave the detail editable, no
\* Update and no SubmitForApproval is issued afterwards, and end_activity
\* returns success.
C3_FailedRecallAbandonsRepair ==
    \A i \in DOMAIN calls :
        RecallFailedAt(i) =>
           /\ \A j \in DOMAIN calls :
                 j > i => calls[j].api \notin {"Update", "SubmitForApproval"}
           /\ pc \in {"Final", "done"}
           /\ pc = "done" => result.success

C3_Witness ==
    /\ pc = "done" /\ result.success
    /\ \E i \in DOMAIN calls : RecallFailedAt(i) /\ calls[i].ok

\* The format a stored tag denotes, and the quantity the hours are computed for
FormatOf(rows) == IF rows[1].StdFormat = " hp " THEN "HP" ELSE rows[1].StdFormat
Recognized(rows) == FormatOf(rows) \in {"HP", "MP", "PH", "PM", "HR"}
TotalQty == args.labor_qty + args.scrap_qty

\* C16: for the total quantity q and the standard s the computed hours h are
\* q*s (hours per piece), q*s/60 (minutes per piece), q/s (pieces per hour),
\* q/s/60 (pieces per minute), s (fixed hours) whatever q is, and 0 for s = 0
\* under every tag, recognized or not.  (h is counted in 1/HoursUnit hour.)
C16_LaborHours ==
    (lv.found /\ JobOperRows # <<>>) =>
       LET s == JobOperRows[1].ProdStandard
           f == FormatOf(JobOperRows)
           h == lv.calculated_hours
       IN /\ s = 0 => h = 0
          /\ (s # 0 /\ f = "HP") => h = TotalQty * s * HoursUnit
          /\ (s # 0 /\ f = "MP") => h * 60 = TotalQty * s * HoursUnit
          /\ (s # 0 /\ f = "PH") => h * s = TotalQty * HoursUnit
          /\ (s # 0 /\ f = "PM") => h * s * 60 = TotalQty * HoursUnit
          /\ (s # 0 /\ f = "HR") => h = s * HoursUnit

\* Hours of a pieces-per-minute standard above one, for a quantity
C16_Witness ==
    /\ lv.found /\ JobOperRows # <<>>
    /\ JobOperRows[1].StdFormat = "PM" /\ JobOperRows[1].ProdStandard > 1
    /\ TotalQty > 1
    /\ lv.calculated_hours > 0

\* Without computed hours end_activity sets the quantities, ends the activity
\* and persists, sets no hours of its own on the detail, issues no repair call,
\* and returns success when its three calls succeeded
ProceedsWithoutHours ==
    LET d == args.labor_dtl_seq
    IN /\ lv.calculated_hours = NoneVal
       /\ Len(calls) <= 4
       /\ \A i \in DOMAIN calls :
             /\ calls[i].api \in {"GetByID", "EndActivity", "Update"}
             /\ (i < 4 /\ ~calls[i].ok) => (i = Len(calls) /\ ~result.success)
       /\ ds[d].LaborQty = args.labor_qty /\ ds[d].ScrapQty = args.scrap_qty
       /\ (Len(calls) >= 2 /\ calls[2].ok) => ds[d].LaborHrs \in ClockHours
       /\ (Len(calls) >= 3 /\ calls[3].ok) =>
             /\ LaborDtl[d].LaborQty = args.labor_qty
             /\ pc \in {"Final", "done"}
             /\ pc = "done" => (Len(calls) = 4 /\ result.success)

\* C17 as stated: with an unrecognized format tag, or without a production
\* standard record, end_activity proceeds without hours.
C17_UnrecognizedProceeds ==
    (lv.found /\ (JobOperRows = <<>> \/ ~Recognized(JobOperRows))) => ProceedsWithoutHours

\* C17 amended: without a production standard record, or with an unrecognized
\* format tag on a standard that is not zero, end_activity proceeds without
\* hours; with an unrecognized tag on a zero standard the computed hours are 0
\* and they are set on the detail like any computed hours.
C17_UncomputedProceeds ==
    /\ (lv.found /\ (JobOperRows = <<>>
                     \/ (~Recognized(JobOperRows) /\ JobOperRows[1].ProdStandard # 0)))
          => ProceedsWithoutHours
    /\ (lv.found /\ JobOperRows # <<>> /\ ~Recognized(JobOperRows)
        /\ JobOperRows[1].ProdStandard = 0)
          => /\ lv.calculated_hours = 0
             /\ pc = "Update" => ds[args.labor_dtl_seq].LaborHrs = 0

\* A success with an unrecognized tag on a standard that is not zero
C17_Witness ==
    /\ pc = "done" /\ result.success /\ lv.found
    /\ JobOperRows # <<>> /\ ~Recognized(JobOperRows)
    /\ JobOperRows[1].ProdStandard # 0
    /\ Len(calls) = 4
    /\ LaborDtl[args.labor_dtl_seq].LaborQty > 0

----------------------------------------------------------------------------
(* Claims about start_activity *)

FailedAt(i, apis) == i \in DOMAIN calls /\ calls[i].api \in apis /\ ~calls[i].ok

\* The failed call is the last one issued and the handler returned a failure naming it
AbortedAt(i) ==
    /\ i = Len(calls)
    /\ pc = "done"
    /\ result.returned /\ ~result.success
    /\ result.error = calls[i].api

StartSteps == {"ClockIn", "Labors", "GetByID", "StartActivity", "DefaultJobNum",
               "DefaultOprSeq", "Update"}
StartToleratedSteps == {"ClockIn", "DefaultOprSeq"}

CreatedDtl == DOMAIN LaborDtl' \ DOMAIN LaborDtl

\* Every step leaves the details the header has as they are, the working
\* dataset holds no detail but the one the remote created for this call, and
\* what is persisted new is one detail of this call's job, assembly and operation
PreExistingUntouched ==
    /\ \A d \in DOMAIN LaborDtl : d \in DOMAIN LaborDtl' /\ LaborDtl'[d] = LaborDtl[d]
    /\ \A i \in DOMAIN ds' : ds'[i].RowMod = "A"
    /\ Cardinality(CreatedDtl) <= 1
    /\ \A d \in CreatedDtl :
          /\ pc = "Update"
          /\ LaborDtl'[d].JobNum = args.job_num
          /\ LaborDtl'[d].AssemblySeq = args.asm_seq
          /\ LaborDtl'[d].OprSeq = args.opr_seq

\* C18: start_activity always creates a fresh detail under the open header
\* (the remote's start-activity adds it to a dataset emptied of the existing
\* details, and no success is returned without that) and leaves every detail
\* the header already had untouched: the only detail it sets fields on and
\* persists is the one newly created by this call.
C18_FreshDetailOnly ==
    [][/\ PreExistingUntouched
       /\ (pc = "StartActivity" /\ pc' # "done") =>
             (ds = <<>> /\ Len(ds') = 1 /\ ds'[1].JobNum = args.job_num)
       /\ result'.success =>
             \E i \in DOMAIN calls : calls[i].api = "StartActivity" /\ calls[i].ok]_vars

\* A success on a header that had a detail: the old one as it was, the new one added
C18_Witness ==
    /\ pc = "done" /\ result.success
    /\ \E d \in DOMAIN LaborDtl : LaborDtl[d].JobNum = "J0"
    /\ \E d \in DOMAIN LaborDtl : LaborDtl[d].JobNum = args.job_num
    /\ \A d \in DOMAIN LaborDtl :
          LaborDtl[d].JobNum = "J0" =>
             LaborDtl[d] = RemoteRow("J0", "SAW", 0, 10, "RG0", "R0", "D0", "")

\* C19: a success result of start_activity carries the header identifier and
\* the detail identifier, both present.
C19_SuccessCarriesIds ==
    (result.returned /\ result.success) =>
        (result.laborHedSeq # NoneVal /\ result.laborDtlSeq # NoneVal)

----------------------------------------------------------------------------
(* Claims about kanban_receipt *)

KanbanSteps == {"KanbanReceiptsGetNew", "ChangePart", "ChangeWarehouse", "ChangeBin",
                "PreProcessKanbanReceipts", "ProcessKanbanReceipts"}
KanbanWarningSteps == {"ChangeWarehouse", "ChangeBin"}

OkAt(i, api) == i \in DOMAIN calls /\ calls[i].api = api /\ calls[i].ok

\* C6: ProcessKanbanReceipts is invoked at most once, and only after
\* KanbanReceiptsGetNew, ChangePart and PreProcessKanbanReceipts each succeeded,
\* in that order; success is returned only if the commit succeeded.
C6_CommitOnceAfterValidation ==
    /\ \A i, j \in DOMAIN calls :
          (calls[i].api = "ProcessKanbanReceipts" /\ calls[j].api = "ProcessKanbanReceipts")
             => i = j
    /\ \A i \in DOMAIN calls :
          calls[i].api = "ProcessKanbanReceipts" =>
             \E a, b, c \in DOMAIN calls :
                /\ a < b /\ b < c /\ c < i
                /\ OkAt(a, "KanbanReceiptsGetNew")
                /\ OkAt(b, "ChangePart")
                /\ OkAt(c, "PreProcessKanbanReceipts")
    /\ result.success => OkAt(Len(calls), "ProcessKanbanReceipts")

C6_Witness ==
    /\ pc = "done" /\ result.success
    /\ OkAt(Len(calls), "ProcessKanbanReceipts")

----------------------------------------------------------------------------
(* Claims about get_jobs_for_workcell *)

InQueue(k) ==
    \E i \in DOMAIN queue :
        <<queue[i].JobNum, queue[i].AssemblySeq, queue[i].OprSeq>> = k

RowKey(r) == <<r.JobNum, r.AssemblySeq, r.OprSeq>>

IsCountable(k) == JobOper[k].LaborEntryMethod = "Q"

\* p is the countable operation immediately before k on the same (job, assembly)
ImmediatelyPrecedes(p, k) ==
    /\ p \in DOMAIN JobOper /\ IsCountable(p)
    /\ p[1] = k[1] /\ p[2] = k[2] /\ p[3] < k[3]
    /\ ~ \E r \in DOMAIN JobOper :
           /\ IsCountable(r) /\ r[1] = k[1] /\ r[2] = k[2]
           /\ p[3] < r[3] /\ r[3] < k[3]

FirstCountable(k) == ~ \E p \in DOMAIN JobOper : ImmediatelyPrecedes(p, k)

\* l is the last countable operation of sub-assembly a of the job
LastCountableOf(l, job, a) ==
    /\ l \in DOMAIN JobOper /\ IsCountable(l) /\ l[1] = job /\ l[2] = a
    /\ ~ \E r \in DOMAIN JobOper :
           IsCountable(r) /\ r[1] = job /\ r[2] = a /\ r[3] > l[3]

\* The four eligibility conditions of the queue
Rule1(k) == JobHead[k[1]].JobReleased /\ ~JobHead[k[1]].JobComplete
Rule2(k) ==
    /\ JobOper[k].OpCode \in WORKCELLS[args.workcell_id].ops
    /\ ~JobOper[k].OpComplete
    /\ IsCountable(k)
Rule3(k) ==
    \/ FirstCountable(k)
    \/ \E p \in DOMAIN JobOper : ImmediatelyPrecedes(p, k) /\ JobOper[p].QtyCompleted > 0
    \/ JobOper[k].SchedRelation \in {"SS", "FF"}
Rule4(k) ==
    k[2] = 0 =>
       \A l \in DOMAIN JobOper :
          (l[2] > 0 /\ LastCountableOf(l, k[1], l[2])) => JobOper[l].QtyCompleted > 0

\* C7: the queue holds no operation that is not the first countable operation of
\* its (job, assembly), whose immediately preceding countable operation has
\* QtyCompleted = 0 and whose SchedRelation is neither SS nor FF.
C7_PredecessorGate ==
    pc = "done" =>
       \A i \in DOMAIN queue :
          ~ \E p \in DOMAIN JobOper :
               /\ ImmediatelyPrecedes(p, RowKey(queue[i]))
               /\ JobOper[p].QtyCompleted = 0
               /\ JobOper[RowKey(queue[i])].SchedRelation \notin {"SS", "FF"}

\* An operation that only the predecessor rule keeps out, behind an earlier
\* countable operation that has quantity
C7_Witness ==
    /\ pc = "done"
    /\ \E k \in DOMAIN JobOper :
          /\ Rule1(k) /\ Rule2(k) /\ Rule4(k)
          /\ JobOper[k].SchedRelation = "FS"
          /\ \E p \in DOMAIN JobOper :
                ImmediatelyPrecedes(p, k) /\ JobOper[p].QtyCompleted = 0
          /\ \E r \in DOMAIN JobOper :
                /\ IsCountable(r) /\ r[1] = k[1] /\ r[2] = k[2] /\ r[3] < k[3]
                /\ JobOper[r].QtyCompleted > 0
          /\ ~InQueue(k)

\* C8: the queue holds no top-level operation of a job one of whose
\* sub-assemblies has a last countable operation with QtyCompleted = 0;
\* the operations of the sub-assemblies are not kept out by this gate.
C8_SubAssemblyGate ==
    pc = "done" =>
       /\ \A i \in DOMAIN queue :
             queue[i].AssemblySeq = 0 =>
                ~ \E l \in DOMAIN JobOper :
                     /\ l[2] > 0 /\ LastCountableOf(l, queue[i].JobNum, l[2])
                     /\ JobOper[l].QtyCompleted = 0
       /\ \A k \in DOMAIN JobOper :
             (k[2] > 0 /\ Rule1(k) /\ Rule2(k) /\ Rule3(k)) => InQueue(k)

\* A top-level operation kept out by the gate alone, next to a queued operation
\* of the sub-assembly whose last countable operation has no quantity
C8_Witness ==
    /\ pc = "done"
    /\ \E k \in DOMAIN JobOper :
          /\ k[2] = 0 /\ Rule1(k) /\ Rule2(k) /\ Rule3(k) /\ ~InQueue(k)
    /\ \E k, l \in DOMAIN JobOper :
          /\ k[2] > 0 /\ InQueue(k)
          /\ LastCountableOf(l, k[1], k[2]) /\ l # k
          /\ JobOper[l].QtyCompleted = 0

C10_ExactlyOnce ==
    pc = "done" =>
       /\ \A k \in DOMAIN JobOper :
             (Rule1(k) /\ Rule2(k) /\ Rule3(k) /\ Rule4(k)) => InQueue(k)
       /\ \A i, j \in DOMAIN queue :
             RowKey(queue[i]) = RowKey(queue[j]) => i = j
       /\ \A i \in DOMAIN queue :
             \A p \in DOMAIN JobOper :
                ImmediatelyPrecedes(p, RowKey(queue[i])) =>
                   queue[i].QtyFromPrior = JobOper[p].QtyCompleted

\* C11: the rows of the queue come in ascending order of (StartDate, JobNum,
\* AssemblySeq, OprSeq), and no two rows of a result compare equal under that
\* order: every row is strictly before the next one.
C11_TotalAscendingOrder ==
    pc = "done" =>
       \A i \in DOMAIN queue :
          i < Len(queue) =>
             /\ LexLeq(OrderKey(queue[i]), OrderKey(queue[i + 1]))
             /\ OrderKey(queue[i]) # OrderKey(queue[i + 1])

\* The work cell of the request has no usable operation codes: its id is not
\* configured, its entry has no operation-code set, or the set is empty
NoWorkcellOps ==
    \/ args.workcell_id \notin DOMAIN WORKCELLS
    \/ "ops" \notin DOMAIN WORKCELLS[args.workcell_id]
    \/ WORKCELLS[args.workcell_id].ops = {}

\* C12: a request for a work cell whose operation-code set is empty or missing,
\* or whose id is unknown, ends with an empty result and raises no error.
C12_NoOpsEmptyResult ==
    (pc # "GetQueue" /\ NoWorkcellOps) => (pc = "done" /\ queue = <<>>)

----------------------------------------------------------------------------
(* Claims about the material status *)

\* The operations whose materials are attributed to k: a countable operation
\* owns itself and the non-PAINT backflush operations between the previous
\* countable operation and itself; a backflush operation owns nothing
OwnedSet(k) ==
    IF ~IsCountable(k) THEN {}
    ELSE {k} \cup
         {b \in DOMAIN JobOper :
             /\ SameAsm(b, k) /\ b[3] < k[3]
             /\ ~IsCountable(b) /\ JobOper[b].OpCode # "PAINT"
             /\ ~ \E r \in DOMAIN JobOper :
                    SameAsm(r, k) /\ IsCountable(r) /\ b[3] < r[3] /\ r[3] < k[3]}

\* The material requirements (of a positive quantity) attributed to k
Attributed(k) ==
    {m \in DOMAIN JobMtl : JobMtl[m].RequiredQty > 0 /\ SourceOp(m) \in OwnedSet(k)}

OnHandOf(m) ==
    IF JobMtl[m].PartNum \in DOMAIN PartQty THEN PartQty[JobMtl[m].PartNum].OnHandQty ELSE 0

\* The demand, defaulting to the required quantity when it is unknown
DemandOf(m) ==
    IF JobMtl[m].PartNum \in DOMAIN PartQty THEN PartQty[JobMtl[m].PartNum].DemandQty
    ELSE JobMtl[m].RequiredQty

\* The sufficiency tag over a set of material requirements, first match wins
SufficiencyTag(A) ==
    IF A = {} THEN "none"
    ELSE IF \E m \in A : OnHandOf(m) = 0 THEN "missing"
    ELSE IF \E m \in A : 0 < OnHandOf(m) /\ OnHandOf(m) < JobMtl[m].RequiredQty
    THEN "partial"
    ELSE IF \E m \in A : JobMtl[m].RequiredQty <= OnHandOf(m) /\ OnHandOf(m) < DemandOf(m)
    THEN "check"
    ELSE "star"

\* C13: the material status of every operation, in the queue and in the labor
\* details, is the sufficiency tag of its attributed materials: none without
\* materials, else missing, partial, check or star by the first rule that
\* matches; an operation with materials is never tagged none.
C13_SufficiencyTag ==
    pc = "done" =>
       /\ \A i \in DOMAIN queue :
             queue[i].MtlStatus = SufficiencyTag(Attributed(RowKey(queue[i])))
       /\ \A k \in DOMAIN details :
             details[k].MtlStatus = SufficiencyTag(Attributed(k))

\* The operation has one attributed material requirement, related to the
\* operation itself, so that the three paths classify the same quantities
SingleMaterial(k) ==
    /\ Cardinality(Attributed(k)) = 1
    /\ \A m \in Attributed(k) : SourceOp(m) = k

\* C14: for the same on-hand, required and demand quantities (none of them
\* negative, demand below the required quantity and zero demand included),
\* get_job_materials, get_active_labor_details and the MtlStatus of the queue
\* give the same tier.
C14_PathsAgree ==
    pc = "done" =>
       \A i \in DOMAIN queue :
          LET k == RowKey(queue[i])
          IN (SingleMaterial(k) /\ \A m \in Attributed(k) : OnHandOf(m) >= 0) =>
                /\ details[k].MtlStatus = queue[i].MtlStatus
                /\ \A r \in materials[k] : r.Status = queue[i].MtlStatus

\* The owned sets of the two implementations: the list op_mapping holds for a
\* countable operation, and the operations OpOwnership gives that owner
OwnedInMapping(k) == Range(lv.op_mapping[k])
OwnedInQuery(k) == {x \in DOMAIN JobOper : SameAsm(x, k) /\ OwnerOprSeq(x) = k[3]}

\* b comes after the last countable operation of its assembly
IsTrailing(b) ==
    ~ \E r \in DOMAIN JobOper : SameAsm(r, b) /\ IsCountable(r) /\ r[3] > b[3]

Countables == {k \in DOMAIN JobOper : IsCountable(k)}
Backflushes == {b \in DOMAIN JobOper : ~IsCountable(b)}

\* C15: in the ownership mapping of get_bulk_materials and in the OpOwnership
\* of the queue query, a backflush operation has at most one owner, the owned
\* set of every countable operation contains the operation itself, and a
\* backflush operation after the last countable operation of its assembly is
\* in no owned set.
C15_Ownership ==
    pc \in {"get_job_materials", "GetQueue", "done"} =>
       /\ DOMAIN lv.op_mapping = Countables
       /\ \A b \in Backflushes :
             /\ Cardinality({k \in Countables : b \in OwnedInMapping(k)}) <= 1
             /\ Cardinality({k \in Countables : b \in OwnedInQuery(k)}) <= 1
             /\ IsTrailing(b) =>
                   \A k \in Countables :
                      b \notin OwnedInMapping(k) /\ b \notin OwnedInQuery(k)
       /\ \A k \in Countables : k \in OwnedInMapping(k) /\ k \in OwnedInQuery(k)

\* A countable operation that owns the backflush operation before it, followed
\* by a backflush operation that has no owner
C15_Witness ==
    /\ pc = "done"
    /\ \E k \in Countables, b, t \in Backflushes :
          /\ b[3] < k[3] /\ k[3] < t[3]
          /\ b \in OwnedInMapping(k) /\ b \in OwnedInQuery(k)
          /\ IsTrailing(t)

----------------------------------------------------------------------------
(* Claims about the three handlers together *)

\* The positions of each handler in the order of its code
StepOrder ==
    IF Handler = "end_activity"
    THEN <<"GetByID", "EndActivity", "Update", "GetByID2", "Update2", "Recall",
           "Update3", "Submit", "Final", "done">>
    ELSE IF Handler = "start_activity"
    THEN <<"ClockIn", "Labors", "GetByID", "StartActivity", "DefaultJobNum",
           "DefaultOprSeq", "JobOpDtl", "OpMaster", "ResourceGroup", "Update", "done">>
    ELSE <<"KanbanReceiptsGetNew", "ChangePart", "ChangeWarehouse", "ChangeBin",
           "PreProcessKanbanReceipts", "ProcessKanbanReceipts", "done">>

Rank(p) == CHOOSE i \in DOMAIN StepOrder : StepOrder[i] = p

Issued(log, api) == Cardinality({i \in DOMAIN log : log[i].api = api})

\* A step issues one remote call and moves the handler to a later position, so
\* that no position is taken twice whatever the call answered
NoStepAgain ==
    /\ Len(calls') = Len(calls) + 1
    /\ Rank(pc') > Rank(pc)
    /\ Issued(calls', "RecallFromApproval") <= 1
    /\ Issued(calls', "SubmitForApproval") <= 1
    /\ Len(calls') < Len(StepOrder)

\* C20: no remote step is retried: every step of start_activity, end_activity
\* and kanban_receipt issues its call once and goes on to a later step whether
\* the call failed or not, recall-from-approval and submit-for-approval are
\* issued at most once per end_activity, and every invocation returns after
\* a bounded number of remote calls.
C20_NoRetryBounded ==
    /\ [][NoStepAgain]_vars
    /\ <>(pc = "done" /\ result.returned)

\* An end_activity that recalled, failed to make the detail editable, and returned
C20_Witness ==
    /\ Handler = "end_activity" /\ pc = "done" /\ result.returned
    /\ \E i \in DOMAIN calls : calls[i].api = "RecallFromApproval" /\ ~calls[i].ok
    /\ Issued(calls, "RecallFromApproval") = 1
    /\ Issued(calls, "SubmitForApproval") = 0

----------------------------------------------------------------------------
(* Claims about concurrent orchestrations *)

\* The orchestration that serves the employee of header h
ServedBy(h) == CHOOSE p \in Procs : args[p].emp_id = h

Committed(p) ==
    calls[p] # <<>> /\ calls[p][Len(calls[p])].api = "Update" /\ calls[p][Len(calls[p])].ok

\* The details orchestration p leaves on its header when it runs alone from
\* the initial details and the remote answers as it did
SerialStart(p) ==
    IF ~Committed(p) THEN InitialDtl
    ELSE LET a == args[p]
             defaulted == calls[p][5].ok
         IN InitialDtl @@
            (2 :> RemoteRow(a.job_num,
                            IF a.op_code # "" THEN a.op_code
                            ELSE IF defaulted THEN "OP_DEF" ELSE "",
                            a.asm_seq, a.opr_seq, a.resource_grp_id, "",
                            IF defaulted THEN "D_DEF" ELSE "", ""))

SerialEnd(p) ==
    IF ~Committed(p) THEN InitialDtl
    ELSE LET a == args[p]
             upd == calls[p][Len(calls[p])]
             std == IF JobOperRows[p] = <<>> THEN NoneVal
                    ELSE (a.labor_qty + a.scrap_qty) * JobOperRows[p][1].ProdStandard * HoursUnit
         IN [InitialDtl EXCEPT ![a.labor_dtl_seq] =
               [@ EXCEPT !.LaborQty = a.labor_qty, !.ScrapQty = a.scrap_qty,
                         !.OpComplete = a.complete, !.TimeStatus = upd.st,
                         !.LaborHrs = IF upd.keeps /\ std # NoneVal THEN std
                                      ELSE CHOOSE c \in ClockHours : TRUE]]

SerialResult(p) == IF IsStart(p) THEN SerialStart(p) ELSE SerialEnd(p)

----------------------------------------------------------------------------
(* Claims about start_activity followed by end_activity *)

EndInvoked == Handler = "end_activity"

\* The detail the start created had status 'E' all along: the status changes at
\* the Update of step 5 and then only in a repair that begins with a recall, so
\* a detail that is editable with no recall issued was never anything else
StaysEditable ==
    /\ EndInvoked
    /\ args.labor_dtl_seq \in DOMAIN LaborDtl
    /\ LaborDtl[args.labor_dtl_seq].TimeStatus = "E"
    /\ \A i \in DOMAIN calls : calls[i].api # "RecallFromApproval"

\* The standard-based hours of quantity 5
StandardHours == calculate_labor_hours(JobOperRows, 5)

\* Quantity, completion flag and standard-based hours persisted, no recall, no submit
ReportedWithStandardHours ==
    LET row == LaborDtl[args.labor_dtl_seq]
    IN /\ row.LaborQty = 5 /\ row.OpComplete
       /\ Abs(row.LaborHrs - StandardHours) * 1000 <= HoursUnit
       /\ \A i \in DOMAIN calls :
             calls[i].api \notin {"RecallFromApproval", "SubmitForApproval"}

EndReturnedSuccess ==
    EndInvoked /\ pc = "done" /\ result.success /\ StandardHours # NoneVal

\* Every call of the verification and repair phase answered ok
RepairCallsOk == \A i \in DOMAIN calls : i > 3 => calls[i].ok

ReadsPersistedHours ==
    Len(calls) = 5 => lv.current_hrs = LaborDtl[args.labor_dtl_seq].LaborHrs

----------------------------------------------------------------------------
(* Claims about the repair phase of end_activity *)

\* C23: every detail end_activity recalled from approval into editable status
\* is resubmitted for approval before end_activity returns, also when the
\* update of the hours after the recall failed.
C23_RecalledResubmitted ==
    pc = "done" =>
        \A i \in DOMAIN calls :
            RecallEditableAt(i) =>
               /\ \E j \in DOMAIN calls :
                     j > i /\ calls[j].api = "SubmitForApproval" /\ calls[j].ok
               /\ LaborDtl[args.labor_dtl_seq].TimeStatus # "E"

\* C24: once the update that persists quantity and completion has succeeded,
\* end_activity returns success whatever happens in the verification and
\* repair phase.
C24_RepairNeverFails ==
    (pc = "done" /\ Len(calls) >= 3 /\ calls[3].api = "Update" /\ calls[3].ok)
        => result.success

----------------------------------------------------------------------------
(* Claims about the attribution of materials *)

\* The operations whose materials get_bulk_materials returns under the key of k
SourcesReturned(k) == {SourceOp(r.MtlSeq) : r \in get_bulk_materials(k)}

\* The material requirements (of a positive quantity) of the operation k itself
OwnMaterials(k) == {m \in DOMAIN JobMtl : JobMtl[m].RequiredQty > 0 /\ SourceOp(m) = k}

\* The operation before k on its assembly is a countable operation
AfterCountable(k) ==
    \E r \in Countables :
       /\ SameAsm(r, k) /\ r[3] < k[3]
       /\ ~ \E x \in DOMAIN JobOper : SameAsm(x, k) /\ r[3] < x[3] /\ x[3] < k[3]

\* C25: for every countable operation, the operations whose materials are
\* attributed to it are exactly itself and the non-PAINT backflush operations
\* between the previous countable operation (or the start of the sequence) and
\* itself; a countable operation right after another one owns only itself; and
\* the materials of a countable operation itself are always among the materials
\* attributed to it.
C25_Attribution ==
    pc \in {"get_job_materials", "GetQueue", "done"} =>
       \A k \in Countables :
          /\ OwnedInMapping(k) = OwnedSet(k)
          /\ SourcesReturned(k) \subseteq OwnedSet(k)
          /\ AfterCountable(k) => OwnedInMapping(k) = {k}
          /\ \A m \in OwnMaterials(k) : m \in {r.MtlSeq : r \in get_bulk_materials(k)}

\* C26: get_job_materials attributes to a countable operation the same material
\* requirements as get_bulk_materials does: the operation's own and those of
\* the backflush operations it owns under the ownership mapping.
C26_SinglePathSameMaterials ==
    pc \in {"GetQueue", "done"} =>
       \A k \in Countables :
          {r.MtlSeq : r \in materials[k]} = {r.MtlSeq : r \in get_bulk_materials(k)}

----------------------------------------------------------------------------
(* Claims about the resource group and the department of a new detail *)

\* The lookup was issued
Asked(api) == \E i \in DOMAIN calls : calls[i].api = api

\* What the lookup yielded: the value its ok answer listed, else nothing
Yielded(api) ==
    IF \E i \in DOMAIN calls : calls[i].api = api /\ calls[i].value # ""
    THEN (CHOOSE c \in Range(calls) : c.api = api /\ c.value # "").value
    ELSE ""

FirstNonEmpty(a, b, c) == IF a # "" THEN a ELSE IF b # "" THEN b ELSE c

\* Step 7 ran on the new detail: the dataset to persist has it
Step7Done == pc \in {"Update", "done"} /\ ds # <<>> /\ Asked("DefaultOprSeq")

\* The Update persisted the new detail
Persisted == pc = "done" /\ result.success /\ ds # <<>> /\ calls[Len(calls)].ok

\* C27: when the remote defaulting left the resource group unset, the resource
\* group persisted on the new detail is the first non-empty value of the
\* caller's value, the value of the job-operation detail record and the value
\* of the operation-code master; a later source is asked only when all earlier
\* ones yielded nothing; and when the defaulting set a resource group and the
\* caller gave none, the defaulted value is kept and no lookup is issued.
C27_FallbackChain ==
    /\ Asked("JobOpDtls") => args.resource_grp_id = "" /\ lv.default_res_grp = ""
    /\ Asked("OpMasters") =>
          /\ args.resource_grp_id = "" /\ lv.default_res_grp = ""
          /\ \E i, j \in DOMAIN calls :
                i < j /\ calls[i].api = "JobOpDtls" /\ calls[j].api = "OpMasters"
          /\ Yielded("JobOpDtls") = ""
    /\ (Step7Done /\ lv.default_res_grp = "") =>
          ds[1].ResourceGrpID =
             FirstNonEmpty(args.resource_grp_id, Yielded("JobOpDtls"), Yielded("OpMasters"))
    /\ (Step7Done /\ lv.default_res_grp # "" /\ args.resource_grp_id = "") =>
          /\ ds[1].ResourceGrpID = lv.default_res_grp
          /\ ~Asked("JobOpDtls") /\ ~Asked("OpMasters") /\ ~Asked("ResourceGroups")
    /\ Persisted => LaborDtl[MaxSeq(LaborDtl)].ResourceGrpID = ds[1].ResourceGrpID

\* The new detail was persisted with the resource group of the operation-code
\* master, after the job-operation detail record yielded none
C27_Witness ==
    /\ Persisted
    /\ args.resource_grp_id = "" /\ lv.default_res_grp = ""
    /\ Asked("JobOpDtls") /\ Yielded("JobOpDtls") = ""
    /\ Yielded("OpMasters") # ""
    /\ LaborDtl[MaxSeq(LaborDtl)].ResourceGrpID = Yielded("OpMasters")

\* The resource group of the new detail came from the fallback chain: the
\* defaulting left it unset and a link of the chain, the caller's value
\* included, supplied it
ResolvedByChain ==
    Step7Done /\ lv.default_res_grp = "" /\ ds[1].ResourceGrpID # ""

\* C28: whenever the resource group was resolved through the fallback chain,
\* by whichever link, the caller's value included, and neither the remote
\* defaulting nor the caller gave a department, the department of the new
\* detail is looked up from that resource group before the detail is persisted.
C28_DepartmentDerived ==
    (ResolvedByChain /\ lv.default_jc_dept = "" /\ args.jc_dept = "") =>
       /\ Asked("ResourceGroups")
       /\ Yielded("ResourceGroups") # "" => ds[1].JCDept = Yielded("ResourceGroups")

----------------------------------------------------------------------------
(* Claims about the quantities of a row *)

\* The required quantity and the part of the row of k: those of the
\* sub-assembly when the assembly is not the top one, else those of the job
EffectiveRequiredQty(k) ==
    IF k[2] > 0 THEN JobAsmbl[<<k[1], k[2]>>].RequiredQty ELSE JobHead[k[1]].ProdQty
EffectivePart(k) ==
    IF k[2] > 0 THEN JobAsmbl[<<k[1], k[2]>>].PartNum ELSE JobHead[k[1]].PartNum

\* C29: for every row of the queue, of the top assembly or of a sub-assembly,
\* the quantity left is the effective required quantity (the sub-assembly's
\* required quantity if the assembly is above 0, else the job's production
\* quantity) minus the quantity completed on the operation, and the part of
\* the row is the sub-assembly's part if the assembly is above 0, else the
\* job's part.
C29_QtyLeftAndPart ==
    pc = "done" =>
       \A i \in DOMAIN queue :
          LET k == RowKey(queue[i])
          IN /\ queue[i].QtyLeft = EffectiveRequiredQty(k) - JobOper[k].QtyCompleted
             /\ queue[i].PartNum = EffectivePart(k)

----------------------------------------------------------------------------
(* Claims about the producible quantity *)

\* The materials that bound the quantity: required above 0, with a production
\* quantity above 0
Bounding(k) ==
    {m \in get_bulk_materials(k) : m.RequiredQty > 0 /\ details[k].ProdQty > 0}

\* The floor of the least on_hand * production quantity / required
FloorOfMin(k) ==
    LET q == {(m.OnHandQty * details[k].ProdQty) \div m.RequiredQty : m \in Bounding(k)}
    IN CHOOSE x \in q : \A y \in q : x <= y

\* C30: for every operation with attributed materials, the producible quantity
\* is the floor of the least, over its materials with a required quantity above
\* 0 (and a production quantity above 0), of on_hand * production quantity /
\* required; it is null when no material bounds it, 0 when a bounding material
\* has none on hand, and never negative when no on-hand quantity is negative.
\* Stated over the operations none of whose materials has a negative on-hand
\* quantity, where the floor and the integer part of a quotient agree.
C30_MaxProducible ==
    pc \in {"get_job_materials", "GetQueue", "done"} =>
       \A k \in DOMAIN details :
          (/\ get_bulk_materials(k) # {}
           /\ \A m \in get_bulk_materials(k) : m.OnHandQty >= 0) =>
             /\ Bounding(k) = {} => details[k].MaxMtlQty = <<>>
             /\ Bounding(k) # {} =>
                   /\ details[k].MaxMtlQty = <<FloorOfMin(k)>>
                   /\ (\E m \in Bounding(k) : m.OnHandQty = 0) =>
                         details[k].MaxMtlQty = <<0>>
                   /\ details[k].MaxMtlQty[1] >= 0


====
